---- MODULE Spec2Model ----
(***************************************************************************)
(* A model of the browser-compatibility diagnostic engine:                 *)
(*   Version.ts              versions, range strings                       *)
(*   CompatData.ts           support statements -> issues                  *)
(*   ClientCompatIssueList   the per-target issue index                    *)
(*   GuardExprChecker.ts     guard expressions and guard chains            *)
(*   Walker.ts               the tree walk with its guard stack            *)
(*   SupportedBrowsersRule   option parsing and the cached checker         *)
(***************************************************************************)
EXTENDS Integers, Sequences, FiniteSets, TLC

VARIABLES
    m_builtins,         \* CompatData.m_builtins, preprocessed
    m_api,              \* CompatData.m_api, preprocessed
    clientInfos,        \* the clientInfos argument of the last getIssues call
    cdFlags,            \* the flags argument of the last getIssues call
    clientIssuesLists,  \* the ClientCompatIssueList array the last getIssues call returned
    cdPc,               \* "constructed", then "derived" once getIssues has returned
    rawSupport,         \* observation: Foo's support entry for client "a" as the source data had it
    gExpr,              \* the expression handed to the GuardExprChecker
    gResult,            \* the last call of evaluate / evaluateChain and what it returned
    sourceFile,         \* Walker: the source file walked
    m_compatChecker,    \* Walker.m_compatChecker: its m_clientIssueLists
    m_whitelist,        \* Walker.m_whitelist: its global names
    m_guardStack,       \* Walker.m_guardStack
    m_issuesFound,      \* Walker.m_issuesFound
    guardStackAtUse,    \* observation: the guard stack at each _checkGlobal, by position
    visitTrace,         \* observation: the guard stack before and after each _visit, in order of return
    walkPc,             \* "constructed", then "walked" once walk has returned
    _cachedTargets,     \* SupportedBrowsersRule: the targets of the cached checker
    _cachedFlags,       \* SupportedBrowsersRule: the flags of the cached checker
    _cachedCompatChecker, \* SupportedBrowsersRule: the cached checker, or null
    lastInit,           \* the options of the last rule initialisation and its outcome
    verArgs,            \* Version: the arguments the calls of a run start from
    verCalls,           \* Version: the calls made so far, each with what it returned
    issueList,          \* a ClientCompatIssueList: m_global, m_properties, m_events
    issueSets,          \* observation: the set calls made on issueList, in order
    issueLookup,        \* the last lookup on issueList: its arguments and the array after it
    scratch,            \* the array a caller hands to the set calls (_tempIssuesArray)
    targetsGiven,       \* the targets object handed to parseTargets
    parsedTargets       \* what parseTargets returned or threw, once called

compatVars == <<m_builtins, m_api, clientInfos, cdFlags, clientIssuesLists, cdPc, rawSupport>>
guardVars == <<gExpr, gResult>>
walkerVars == <<sourceFile, m_compatChecker, m_whitelist, m_guardStack, m_issuesFound, guardStackAtUse,
                visitTrace, walkPc>>
ruleVars == <<_cachedTargets, _cachedFlags, _cachedCompatChecker, lastInit>>

versionVars == <<verArgs, verCalls>>

issueListVars == <<issueList, issueSets, issueLookup, scratch>>

targetsVars == <<targetsGiven, parsedTargets>>

vars == <<compatVars, guardVars, walkerVars, ruleVars, versionVars, issueListVars, targetsVars>>

(***************************************************************************)
(* Bounds of the model.                                                    *)
(***************************************************************************)
MaxMajor == 1          \* major versions 0..MaxMajor appear in the data and the targets
MaxStmts == 2          \* longest list-valued support entry

(***************************************************************************)
(* Small helpers.                                                          *)
(***************************************************************************)
Range(s) == {s[i] : i \in 1..Len(s)}

SeqsUpTo(S, n) == UNION {[1..k -> S] : k \in 0..n}

(***************************************************************************)
(* Version.ts                                                              *)
(***************************************************************************)
_VERSION_MAX == 999999999

MkVersion(major, minor) == [major |-> major, minor |-> minor]

minVal == MkVersion(0, 0)
maxVal == MkVersion(_VERSION_MAX, _VERSION_MAX)
infinite == MkVersion(_VERSION_MAX + 1, 0)

\* A JavaScript number: NaN, or sign * (n + f/10).
Num(n) == [nan |-> FALSE, neg |-> n < 0, n |-> IF n < 0 THEN 0 - n ELSE n, f |-> 0]
NumFrac(n, f) == [nan |-> FALSE, neg |-> FALSE, n |-> n, f |-> f]
NaN == [nan |-> TRUE, neg |-> FALSE, n |-> 0, f |-> 0]

\* The result of an operation that may throw.
Ok(v) == [ok |-> TRUE, val |-> v, err |-> "none"]
Throw(e) == [ok |-> FALSE, val |-> minVal, err |-> e]

\* A number brought into [0, _VERSION_MAX] (NaN to 0), its fraction dropped.
Clamped(x) == IF x.nan \/ x.neg THEN 0 ELSE IF x.n > _VERSION_MAX THEN _VERSION_MAX ELSE x.n

\* The construction that clamps its arguments and never fails.
VersionCreateClamping(major, minor) == Ok(MkVersion(Clamped(major), Clamped(minor)))

\* Version.create: validates the bounds, then truncates with |0.
VersionCreate(major, minor) ==
    IF \A x \in {major, minor} :
           /\ ~x.nan
           /\ ~x.neg \/ (x.n = 0 /\ x.f = 0)                                   \* x >= 0
           /\ x.neg \/ x.n < _VERSION_MAX \/ (x.n = _VERSION_MAX /\ x.f = 0)    \* x <= _VERSION_MAX
    THEN Ok(MkVersion(major.n, minor.n))
    ELSE Throw("RangeError")

\* The comparison by major version alone.
VersionCompareMajorOnly(v1, v2) ==
    IF v1.major # v2.major THEN (IF v1.major < v2.major THEN -1 ELSE 1) ELSE 0

\* Version.compare
VersionCompare(v1, v2) ==
    IF v1.major # v2.major THEN (IF v1.major < v2.major THEN -1 ELSE 1)
    ELSE IF v1.minor # v2.minor THEN (IF v1.minor < v2.minor THEN -1 ELSE 1)
    ELSE 0

VersionMin(v1, v2) == IF VersionCompare(v1, v2) < 0 THEN v1 ELSE v2

VersionMax(v1, v2) == IF VersionCompare(v1, v2) > 0 THEN v1 ELSE v2

(***************************************************************************)
(* Strings are sequences of one-character strings.                         *)
(***************************************************************************)
IndexOf(str, c) ==
    IF \E i \in 1..Len(str) : str[i] = c
    THEN (CHOOSE i \in 1..Len(str) : str[i] = c /\ \A j \in 1..(i - 1) : str[j] # c) - 1
    ELSE -1

\* str.substring(from, to), zero-based, to exclusive.
Substring(str, from, to) == SubSeq(str, from + 1, to)

StartsWith(str, prefix) ==
    Len(str) >= Len(prefix) /\ SubSeq(str, 1, Len(prefix)) = prefix

Digits == {"0", "1", "2", "3", "4", "5", "6", "7", "8", "9"}

DigitVal(c) ==
    CASE c = "0" -> 0 [] c = "1" -> 1 [] c = "2" -> 2 [] c = "3" -> 3 [] c = "4" -> 4
      [] c = "5" -> 5 [] c = "6" -> 6 [] c = "7" -> 7 [] c = "8" -> 8 [] c = "9" -> 9

RECURSIVE DigitsValue(_, _)
\* The value of the longest run of digits at the head of str, after acc.
DigitsValue(str, acc) ==
    IF Len(str) = 0 \/ str[1] \notin Digits THEN acc
    ELSE DigitsValue(Tail(str), acc * 10 + DigitVal(str[1]))

RECURSIVE SkipSpaces(_)
SkipSpaces(str) ==
    IF Len(str) > 0 /\ str[1] = " " THEN SkipSpaces(Tail(str)) ELSE str

\* parseInt(str, 10): leading blanks, an optional sign, then digits; NaN without a digit.
ParseInt(str) ==
    LET s1 == SkipSpaces(str)
        signed == Len(s1) > 0 /\ s1[1] \in {"-", "+"}
        s2 == IF signed THEN Tail(s1) ELSE s1
    IN  IF Len(s2) = 0 \/ s2[1] \notin Digits THEN NaN
        ELSE [nan |-> FALSE, neg |-> signed /\ s1[1] = "-",
              n |-> DigitsValue(s2, 0), f |-> 0]

\* Version._fromString
FromStringImpl(str, defaultMinorMax) ==
    LET p == IndexOf(str, ".")
        major == IF p = -1 THEN ParseInt(str) ELSE ParseInt(Substring(str, 0, p))
        minor == IF p = -1
                 THEN (IF defaultMinorMax THEN Num(_VERSION_MAX) ELSE Num(0))
                 ELSE ParseInt(Substring(str, p + 1, Len(str)))
    IN  VersionCreate(major, minor)

\* Version.fromString
VersionFromString(str) == FromStringImpl(str, FALSE)

\* Version.rangeFromString: the pair [v1, v2] is the record [lo, hi].
RangeFromString(str) ==
    LET dashPos == IndexOf(str, "-")
        Checked(min, max) ==
            IF ~min.ok THEN Throw(min.err)
            ELSE IF ~max.ok THEN Throw(max.err)
            ELSE IF VersionCompare(min.val, max.val) > 0 THEN Throw("RangeError")
            ELSE Ok([lo |-> min.val, hi |-> max.val])
        WholeMajor(min) ==
            Checked(min, IF min.ok THEN VersionCreate(Num(min.val.major), Num(_VERSION_MAX)) ELSE min)
        Both(v) == Checked(v, v)
    IN  IF str = <<"*">> THEN Ok([lo |-> minVal, hi |-> maxVal])
        ELSE IF dashPos # -1
        THEN Checked(FromStringImpl(Substring(str, 0, dashPos), FALSE),
                     FromStringImpl(Substring(str, dashPos + 1, Len(str)), TRUE))
        ELSE IF StartsWith(str, <<"<", "=">>)
        THEN Checked(Ok(minVal), FromStringImpl(Substring(str, 2, Len(str)), TRUE))
        ELSE IF StartsWith(str, <<">", "=">>)
        THEN Checked(FromStringImpl(Substring(str, 2, Len(str)), FALSE), Ok(maxVal))
        ELSE IF IndexOf(str, ".") = -1 THEN WholeMajor(VersionCreate(ParseInt(str), Num(0)))
        ELSE Both(VersionFromString(str))

(***************************************************************************)
(* ClientInfo, Issue                                                       *)
(***************************************************************************)
ClientInfo(name, minVersion, maxVersion) ==
    [name |-> name, minVersion |-> minVersion, maxVersion |-> maxVersion]

NOT_SUPPORTED == "NOT_SUPPORTED"
NEEDS_PREFIX == "NEEDS_PREFIX"
NEEDS_ALT_NAME == "NEEDS_ALT_NAME"
NEEDS_FLAG == "NEEDS_FLAG"
IS_PARTIAL_IMPL == "IS_PARTIAL_IMPL"
NOTE == "NOTE"

\* ClientCompatCheckerFlags: a bit set, here the set of the bits that are set.
IGNORE_NOTES == "IGNORE_NOTES"
IGNORE_PARTIAL_IMPL == "IGNORE_PARTIAL_IMPL"
AllFlags == SUBSET {IGNORE_NOTES, IGNORE_PARTIAL_IMPL}

\* new Issue(...): the defaults of the constructor are null, null, null, minVal, infinite.
Issue(featureName, ci, kind, altOrPrefix, note, url, startVersion, endVersion) ==
    [featureName |-> featureName, clientInfo |-> ci, kind |-> kind,
     altOrPrefix |-> altOrPrefix, note |-> note, url |-> url,
     startVersion |-> startVersion, endVersion |-> endVersion]

\* Names are sequences of tokens: <<"Window">>, <<"click", "_event">>, <<"@@", "iterator">>.
NullName == <<"(null)">>

\* typeName + "." + propName, or typeName alone.
FeatureName(typeName, propName) ==
    IF propName # NullName THEN typeName \o <<".">> \o propName ELSE typeName

(***************************************************************************)
(* CompatData.ts: normalisation at load time                               *)
(***************************************************************************)
Char2264 == "u2264"     \* the character U+2264, less-than-or-equal

\* A value of the data or of the options: its typeof (or "null", "undefined"), and its
\* value when it is a boolean (b), a string (s) or a number (num).
RawBool(b) == [t |-> "boolean", b |-> b, s |-> <<>>, num |-> NaN]
RawStr(s) == [t |-> "string", b |-> FALSE, s |-> s, num |-> NaN]
RawNum(x) == [t |-> "number", b |-> FALSE, s |-> <<>>, num |-> x]
RawUndefined == [t |-> "undefined", b |-> FALSE, s |-> <<>>, num |-> NaN]

\* A conversion of version_added that reads the version after U+2264 as version_removed does.
SupportStatementVersionAddedFromRange(versionAdded) ==
    IF versionAdded.t = "boolean" /\ versionAdded.b THEN Ok(minVal)
    ELSE IF versionAdded.t = "boolean" /\ ~versionAdded.b THEN Ok(infinite)
    ELSE IF versionAdded.t # "string" THEN Ok(minVal)
    ELSE IF Len(versionAdded.s) > 0 /\ versionAdded.s[1] = Char2264
         THEN VersionFromString(Substring(versionAdded.s, 1, Len(versionAdded.s)))
    ELSE VersionFromString(versionAdded.s)

\* _supportStatementVersionAddedToObject
SupportStatementVersionAddedToObject(versionAdded) ==
    IF versionAdded.t = "boolean" /\ versionAdded.b THEN Ok(minVal)
    ELSE IF versionAdded.t = "boolean" /\ ~versionAdded.b THEN Ok(infinite)
    ELSE IF versionAdded.t # "string" THEN Ok(minVal)
    ELSE IF Len(versionAdded.s) > 0 /\ versionAdded.s[1] = Char2264 THEN Ok(minVal)
    ELSE VersionFromString(versionAdded.s)

\* _supportStatementVersionRemovedToObject
SupportStatementVersionRemovedToObject(versionRemoved) ==
    IF versionRemoved.t # "string" THEN Ok(infinite)
    ELSE IF Len(versionRemoved.s) > 0 /\ versionRemoved.s[1] = Char2264
         THEN VersionFromString(Substring(versionRemoved.s, 1, Len(versionRemoved.s)))
    ELSE VersionFromString(versionRemoved.s)

\* _preprocessMDNCompatDataSupportStatement (the data of the model always parses)
PreprocessSupportStatement(ss) ==
    [ss EXCEPT !.version_added = SupportStatementVersionAddedToObject(ss.version_added).val,
               !.version_removed = SupportStatementVersionRemovedToObject(ss.version_removed).val]

\* A comparator that orders by version_added alone.
CompareSupportStatementsByAddedOnly(a, b) ==
    VersionCompare(a.version_added, b.version_added)

\* _compareSupportStatementsForSort
CompareSupportStatementsForSort(a, b) ==
    LET r == VersionCompare(a.version_added, b.version_added)
    IN  IF r # 0 THEN r ELSE VersionCompare(b.version_removed, a.version_removed)

RECURSIVE InsertSorted(_, _)
InsertSorted(sorted, x) ==
    IF Len(sorted) = 0 THEN <<x>>
    ELSE IF CompareSupportStatementsForSort(x, sorted[1]) < 0 THEN <<x>> \o sorted
    ELSE <<sorted[1]>> \o InsertSorted(Tail(sorted), x)

RECURSIVE SortStatements(_)
\* Array.prototype.sort with the comparator above (stable).
SortStatements(arr) ==
    IF Len(arr) = 0 THEN <<>>
    ELSE InsertSorted(SortStatements(SubSeq(arr, 1, Len(arr) - 1)), arr[Len(arr)])

\* A client's entry of a support block: one statement, or an array of statements.
SingleEntry(ss) == [t |-> "single", ss |-> <<ss>>]
ArrayEntry(arr) == [t |-> "array", ss |-> arr]
NoEntry == [t |-> "undefined", ss |-> <<>>]

\* _preprocessMDNCompatDataSupportBlock, for one client's entry
PreprocessSupportEntry(entry) ==
    IF entry.t = "array"
    THEN ArrayEntry(SortStatements([i \in 1..Len(entry.ss) |-> PreprocessSupportStatement(entry.ss[i])]))
    ELSE IF entry.t = "single" THEN SingleEntry(PreprocessSupportStatement(entry.ss[1]))
    ELSE entry

(***************************************************************************)
(* CompatData.ts: support statements -> issues                             *)
(***************************************************************************)
\* The operand of || in "x.prefix || x.alternative_name || x.flags || x.partial_implementation"
HasCaveat(x) ==
    x.prefix # "" \/ x.alternative_name # "" \/ x.flags \/ x.partial_implementation

\* Support decided by intersection of the target with the interval, not containment.
CheckIfSupportedVersionIntersects(ci, support, withNoIssues) ==
    IF VersionCompare(ci.maxVersion, support.version_added) < 0
       \/ VersionCompare(ci.minVersion, support.version_removed) >= 0
    THEN FALSE
    ELSE IF ~withNoIssues THEN TRUE
    ELSE ~HasCaveat(support)

\* _checkIfSupportedVersion
CheckIfSupportedVersion(ci, support, withNoIssues) ==
    IF VersionCompare(ci.minVersion, support.version_added) < 0
       \/ VersionCompare(ci.maxVersion, support.version_removed) >= 0
    THEN FALSE
    ELSE IF ~withNoIssues THEN TRUE
    ELSE ~HasCaveat(support)

RECURSIVE IntersectionLoopNoMax(_, _, _, _, _)
\* The loop with "lastRemoved = arr[i].version_removed" in place of the maximum.
IntersectionLoopNoMax(vMin, vMax, arr, i, lastRemoved) ==
    IF i > Len(arr) THEN VersionCompare(vMax, lastRemoved) < 0
    ELSE LET nextAdded == arr[i].version_added
         IN  IF VersionCompare(nextAdded, lastRemoved) > 0
                /\ VersionCompare(vMin, nextAdded) < 0
                /\ VersionCompare(vMax, lastRemoved) >= 0
             THEN FALSE
             ELSE IntersectionLoopNoMax(vMin, vMax, arr, i + 1, arr[i].version_removed)

RECURSIVE IntersectionLoop(_, _, _, _, _)
\* The for loop of _checkVersionRangeIntersection, from index i (one-based).
IntersectionLoop(vMin, vMax, arr, i, lastRemoved) ==
    IF i > Len(arr) THEN VersionCompare(vMax, lastRemoved) < 0
    ELSE LET nextAdded == arr[i].version_added
         IN  IF VersionCompare(nextAdded, lastRemoved) > 0
                /\ VersionCompare(vMin, nextAdded) < 0
                /\ VersionCompare(vMax, lastRemoved) >= 0
             THEN FALSE
             ELSE IntersectionLoop(vMin, vMax, arr, i + 1,
                                   VersionMax(lastRemoved, arr[i].version_removed))

\* _checkVersionRangeIntersection
CheckVersionRangeIntersection(ci, arr) ==
    IF VersionCompare(ci.minVersion, arr[1].version_added) < 0 THEN FALSE
    ELSE IntersectionLoop(ci.minVersion, ci.maxVersion, arr, 2, arr[1].version_removed)

\* _checkIfSupportedVersionArray
CheckIfSupportedVersionArray(ci, supportStatements, withNoIssues) ==
    LET arr == IF withNoIssues
               THEN SelectSeq(supportStatements, LAMBDA x : ~HasCaveat(x))
               ELSE supportStatements
    IN  IF Len(arr) = 0 THEN FALSE
        ELSE IF Len(arr) = 1 THEN CheckIfSupportedVersion(ci, arr[1], FALSE)
        ELSE CheckVersionRangeIntersection(ci, arr)

\* The kind chosen with the note tested first.
GetIssueKindNoteFirst(ss) ==
    IF ss.notes # <<>> THEN <<NOTE, "null">>
    ELSE IF ss.prefix # "" THEN <<NEEDS_PREFIX, ss.prefix>>
    ELSE IF ss.alternative_name # "" THEN <<NEEDS_ALT_NAME, ss.alternative_name>>
    ELSE IF ss.flags THEN <<NEEDS_FLAG, "null">>
    ELSE IF ss.partial_implementation THEN <<IS_PARTIAL_IMPL, "null">>
    ELSE <<"null", "null">>

\* _getIssueKindAndPrefixFromSupportStatement: <<issueKind, altOrPrefix>>
GetIssueKindAndPrefixFromSupportStatement(ss) ==
    IF ss.prefix # "" THEN <<NEEDS_PREFIX, ss.prefix>>
    ELSE IF ss.alternative_name # "" THEN <<NEEDS_ALT_NAME, ss.alternative_name>>
    ELSE IF ss.flags THEN <<NEEDS_FLAG, "null">>
    ELSE IF ss.partial_implementation THEN <<IS_PARTIAL_IMPL, "null">>
    ELSE IF ss.notes # <<>> THEN <<NOTE, "null">>
    ELSE <<"null", "null">>

\* _shouldDiscardIssueBasedOnFlags
ShouldDiscardIssueBasedOnFlags(issue, flags) ==
    IF IGNORE_NOTES \in flags /\ issue.kind = NOTE THEN TRUE
    ELSE IF IGNORE_PARTIAL_IMPL \in flags /\ issue.kind = IS_PARTIAL_IMPL THEN TRUE
    ELSE FALSE

RECURSIVE StripTags(_)
\* str.replace(/<[^>]+>/g, ""): a tag is "<", one or more characters other than ">", then ">".
StripTags(str) ==
    IF Len(str) = 0 THEN <<>>
    ELSE IF str[1] = "<" /\ Len(str) >= 3 /\ str[2] # ">"
            /\ (\E k \in 3..Len(str) : str[k] = ">")
         THEN LET k == CHOOSE k \in 3..Len(str) :
                           str[k] = ">" /\ \A j \in 3..(k - 1) : str[j] # ">"
              IN  StripTags(SubSeq(str, k + 1, Len(str)))
         ELSE <<str[1]>> \o StripTags(Tail(str))

\* _stripHTMLFromNotes; the entities &lt; &gt; &amp; are single elements of the sequence.
StripHTMLFromNotes(str) ==
    LET t == StripTags(str)
    IN  [i \in 1..Len(t) |->
            IF t[i] = "&lt;" THEN "<" ELSE IF t[i] = "&gt;" THEN ">"
            ELSE IF t[i] = "&amp;" THEN "&" ELSE t[i]]

\* _makeNotSupportedIssue
MakeNotSupportedIssue(name, propName, ci) ==
    Issue(FeatureName(name, propName), ci, NOT_SUPPORTED, "null", NullName, "null", minVal, infinite)

\* The issue of a statement made whether or not its interval intersects the target.
MakeIssueWithoutIntersection(typeName, propName, url, ci, flags, ss) ==
    LET Made(issue) ==
            IF issue.kind = "null" THEN <<>>
            ELSE IF ShouldDiscardIssueBasedOnFlags(issue, flags) THEN <<>>
            ELSE <<issue>>
        OfKind(kp) ==
            Made(Issue(FeatureName(typeName, propName), ci, kp[1], kp[2],
                       IF ss.notes # <<>> THEN StripHTMLFromNotes(ss.notes) ELSE NullName,
                       url,
                       ss.version_added, ss.version_removed))
    IN  OfKind(GetIssueKindAndPrefixFromSupportStatement(ss))

\* An issue that carries the bounds of the target as its window.
MakeIssueWithTargetBounds(typeName, propName, url, ci, flags, ss) ==
    LET Made(issue) ==
            IF issue.kind = "null" THEN <<>>
            ELSE IF ShouldDiscardIssueBasedOnFlags(issue, flags) THEN <<>>
            ELSE <<issue>>
        OfKind(kp) ==
            Made(Issue(FeatureName(typeName, propName), ci, kp[1], kp[2],
                       IF ss.notes # <<>> THEN StripHTMLFromNotes(ss.notes) ELSE NullName,
                       url,
                       ci.minVersion, ci.maxVersion))
    IN  IF VersionCompare(ci.maxVersion, ss.version_added) < 0
           \/ VersionCompare(ci.minVersion, ss.version_removed) >= 0
        THEN <<>>
        ELSE OfKind(GetIssueKindAndPrefixFromSupportStatement(ss))

\* _makeIssueFromSupportStatement: <<issue>>, or <<>> for null
MakeIssueFromSupportStatement(typeName, propName, url, ci, flags, ss) ==
    LET Made(issue) ==
            IF issue.kind = "null" THEN <<>>
            ELSE IF ShouldDiscardIssueBasedOnFlags(issue, flags) THEN <<>>
            ELSE <<issue>>
        OfKind(kp) ==
            Made(Issue(FeatureName(typeName, propName), ci, kp[1], kp[2],
                       IF ss.notes # <<>> THEN StripHTMLFromNotes(ss.notes) ELSE NullName,
                       url,
                       ss.version_added, ss.version_removed))
    IN  IF VersionCompare(ci.maxVersion, ss.version_added) < 0
           \/ VersionCompare(ci.minVersion, ss.version_removed) >= 0
        THEN <<>>
        ELSE OfKind(GetIssueKindAndPrefixFromSupportStatement(ss))

\* _getIssuesFromSingleSupportStatement: the issues array after the call
GetIssuesFromSingleSupportStatement(ci, typeName, propName, url, ss, flags, old) ==
    IF CheckIfSupportedVersion(ci, ss, FALSE)
    THEN old \o MakeIssueFromSupportStatement(typeName, propName, url, ci, flags, ss)
    ELSE Append(old, MakeNotSupportedIssue(typeName, propName, ci))

RECURSIVE ArrayIssuesLoop(_, _, _, _, _, _, _, _)
ArrayIssuesLoop(ci, typeName, propName, url, arr, flags, notesOnly, i) ==
    LET Kept(made) == IF made = <<>> \/ (notesOnly /\ made[1].kind # NOTE) THEN <<>> ELSE made
    IN  IF i > Len(arr) THEN <<>>
        ELSE Kept(MakeIssueFromSupportStatement(typeName, propName, url, ci, flags, arr[i]))
                 \o ArrayIssuesLoop(ci, typeName, propName, url, arr, flags, notesOnly, i + 1)

\* The derivation that goes on to the statements after a failed coverage test.
GetIssuesFromArrayWithoutReturn(ci, typeName, propName, url, arr, flags, old) ==
    (IF ~CheckIfSupportedVersionArray(ci, arr, FALSE)
     THEN Append(old, MakeNotSupportedIssue(typeName, propName, ci))
     ELSE old)
        \o ArrayIssuesLoop(ci, typeName, propName, url, arr, flags,
                           CheckIfSupportedVersionArray(ci, arr, TRUE), 1)

\* _getIssuesFromArraySupportStatement: the issues array after the call
GetIssuesFromArraySupportStatement(ci, typeName, propName, url, arr, flags, old) ==
    IF ~CheckIfSupportedVersionArray(ci, arr, FALSE)
    THEN Append(old, MakeNotSupportedIssue(typeName, propName, ci))
    ELSE old \o ArrayIssuesLoop(ci, typeName, propName, url, arr, flags,
                                CheckIfSupportedVersionArray(ci, arr, TRUE), 1)

\* The clients of the data (the keys of "browsers").
ClientNames == {"a", "b"}

\* A compat statement: [present, mdn_url, support], support a function of the client name.
NoCompat == [present |-> FALSE, mdn_url |-> "", support |-> [c \in ClientNames |-> NoEntry]]

Compat(url, support) == [present |-> TRUE, mdn_url |-> url, support |-> support]

\* A derivation that makes no issue for a client the record does not mention.
GetIssuesFromCompatStatementOfKnownClients(ci, typeName, propName, compatStatement, flags, old) ==
    IF ~compatStatement.present THEN old
    ELSE LET support == IF ci.name \in DOMAIN compatStatement.support
                        THEN compatStatement.support[ci.name] ELSE NoEntry
             url == IF compatStatement.mdn_url # "" THEN compatStatement.mdn_url ELSE "null"
         IN  IF support.t = "undefined"
             THEN old
             ELSE IF support.t = "array"
             THEN GetIssuesFromArraySupportStatement(ci, typeName, propName, url,
                                                     support.ss, flags, old)
             ELSE GetIssuesFromSingleSupportStatement(ci, typeName, propName, url,
                                                      support.ss[1], flags, old)

\* _getIssuesFromCompatStatement: the issues array after the call
GetIssuesFromCompatStatement(ci, typeName, propName, compatStatement, flags, old) ==
    IF ~compatStatement.present THEN old
    ELSE LET support == IF ci.name \in DOMAIN compatStatement.support
                        THEN compatStatement.support[ci.name] ELSE NoEntry
             url == IF compatStatement.mdn_url # "" THEN compatStatement.mdn_url ELSE "null"
         IN  IF support.t = "undefined"
             THEN Append(old, MakeNotSupportedIssue(typeName, propName, ci))
             ELSE IF support.t = "array"
             THEN GetIssuesFromArraySupportStatement(ci, typeName, propName, url,
                                                     support.ss, flags, old)
             ELSE GetIssuesFromSingleSupportStatement(ci, typeName, propName, url,
                                                      support.ss[1], flags, old)

(***************************************************************************)
(* ClientCompatIssueList.ts                                                *)
(***************************************************************************)
\* A map is a function on the set of its keys.
EmptyMap == [k \in {} |-> 0]
MapSet(m, k, v) == [x \in (DOMAIN m) \cup {k} |-> IF x = k THEN v ELSE m[x]]

NewIssueList == [m_global |-> EmptyMap, m_properties |-> EmptyMap, m_events |-> EmptyMap]

\* What a map holds for a key: the one issue, or the array itself.
StoredByReference(iss) ==
    IF Len(iss) = 1 THEN [isArray |-> FALSE, items |-> <<iss[1]>>, shared |-> FALSE]
    ELSE [isArray |-> TRUE, items |-> iss, shared |-> TRUE]

\* What a map holds for a key: issues[0], or issues.slice(). An array that is stored is
\* shared when it is the caller's array object; slice() makes a new one.
Stored(iss) == IF Len(iss) = 1 THEN [isArray |-> FALSE, items |-> <<iss[1]>>, shared |-> FALSE]
               ELSE [isArray |-> TRUE, items |-> iss, shared |-> FALSE]

\* The issues a stored value holds now: those of the caller's array when it is shared.
Items(stored) == IF stored.shared THEN scratch ELSE stored.items

\* setIssuesForGlobal
SetIssuesForGlobal(list, name, iss) ==
    IF Len(iss) = 0 THEN list
    ELSE [list EXCEPT !.m_global = MapSet(list.m_global, name, Stored(iss))]

\* Properties and events stored in the one dictionary m_properties.
SetIssuesInOneDictionary(list, typeName, propName, isEvent, iss) ==
    IF Len(iss) = 0 THEN list
    ELSE LET typeDict == IF typeName \in DOMAIN list.m_properties
                         THEN list.m_properties[typeName] ELSE EmptyMap
         IN  [list EXCEPT !.m_properties =
                  MapSet(list.m_properties, typeName, MapSet(typeDict, propName, Stored(iss)))]

\* setIssuesForPropertyOrEvent
SetIssuesForPropertyOrEvent(list, typeName, propName, isEvent, iss) ==
    IF Len(iss) = 0 THEN list
    ELSE LET dict == IF isEvent THEN list.m_events ELSE list.m_properties
             typeDict == IF typeName \in DOMAIN dict THEN dict[typeName] ELSE EmptyMap
             dict2 == MapSet(dict, typeName, MapSet(typeDict, propName, Stored(iss)))
         IN  IF isEvent THEN [list EXCEPT !.m_events = dict2]
             ELSE [list EXCEPT !.m_properties = dict2]

\* getIssuesForGlobal: the caller's array after the call
GetIssuesForGlobal(list, name, arr) ==
    IF name \notin DOMAIN list.m_global THEN arr
    ELSE arr \o Items(list.m_global[name])

\* getIssuesForPropertyOrEvent: the caller's array after the call
GetIssuesForPropertyOrEvent(list, typeName, propName, isEvent, arr) ==
    LET dict == IF isEvent THEN list.m_events ELSE list.m_properties
    IN  IF typeName \notin DOMAIN dict THEN arr
        ELSE IF propName \notin DOMAIN dict[typeName] THEN arr
        ELSE arr \o Items(dict[typeName][propName])

(***************************************************************************)
(* CompatData.ts: building the issue lists                                 *)
(***************************************************************************)
\* A source (builtins, api) is a sequence of [name, compat, members], in key order;
\* members is a sequence of [name, compat].
_windowInterfaces ==
    {<<"Window">>, <<"EventTarget">>, <<"AnimationFrameProvider">>, <<"GlobalEventHandlers">>,
     <<"WindowConsole">>, <<"WindowEventHandlers">>, <<"WindowLocalStorage">>,
     <<"WindowOrWorkerGlobalScope">>, <<"WindowSessionStorage">>}

\* _loadGlobalIssuesForClient
LoadGlobalIssuesForClient(ci, name, compat, flags, list) ==
    SetIssuesForGlobal(list, name,
        GetIssuesFromCompatStatement(ci, name, NullName, compat, flags, <<>>))

\* _loadMemberIssuesForClient
LoadMemberIssuesForClient(ci, typeName, memberName, isEvent, isWindowGlobal, compat, flags, list) ==
    LET Store(tmp) ==
            IF isWindowGlobal /\ ~isEvent
            THEN SetIssuesForGlobal(
                     SetIssuesForPropertyOrEvent(list, typeName, memberName, isEvent, tmp),
                     memberName, tmp)
            ELSE SetIssuesForPropertyOrEvent(list, typeName, memberName, isEvent, tmp)
    IN  Store(GetIssuesFromCompatStatement(ci, typeName, memberName, compat, flags, <<>>))

RECURSIVE LoadAllMemberIssuesForClient(_, _, _, _, _, _)
\* _loadAllMemberIssuesForClient, from member i (one-based)
LoadAllMemberIssuesForClient(ci, typeName, members, flags, list, i) ==
    IF i > Len(members) THEN list
    ELSE LET memberName == members[i].name
             isEvent == Len(memberName) > 0 /\ memberName[Len(memberName)] = "_event"
             skip == ~isEvent /\ (\/ \E k \in 1..Len(memberName) : memberName[k] \in {"_", "__"}
                                  \/ (Len(memberName) > 0 /\ memberName[1] = "@@")
                                  \/ memberName = typeName)
             nameWithoutSuffix == IF isEvent THEN SubSeq(memberName, 1, Len(memberName) - 1)
                                  ELSE memberName
             l1 == IF skip THEN list
                   ELSE LoadMemberIssuesForClient(ci, typeName, nameWithoutSuffix, isEvent,
                            typeName \in _windowInterfaces, members[i].compat, flags, list)
         IN  LoadAllMemberIssuesForClient(ci, typeName, members, flags, l1, i + 1)

RECURSIVE LoadCompatDataFromSource(_, _, _, _, _)
\* _loadCompatDataFromSource for one client, from global g (one-based)
LoadCompatDataFromSource(sourceData, ci, flags, list, g) ==
    IF g > Len(sourceData) THEN list
    ELSE LET l1 == LoadGlobalIssuesForClient(ci, sourceData[g].name, sourceData[g].compat, flags, list)
             l2 == LoadAllMemberIssuesForClient(ci, sourceData[g].name, sourceData[g].members,
                                                flags, l1, 1)
         IN  LoadCompatDataFromSource(sourceData, ci, flags, l2, g + 1)

\* CompatData.getIssues
CompatDataGetIssues(builtins, api, cis, flags) ==
    [i \in 1..Len(cis) |->
        LoadCompatDataFromSource(api, cis[i], flags,
            LoadCompatDataFromSource(builtins, cis[i], flags, NewIssueList, 1), 1)]

(***************************************************************************)
(* The components a specification does not exercise stay as constructed.   *)
(***************************************************************************)
NoNode == [kind |-> "undefined"]

\* The state of the components of S before any of their operations is called.
Idle(S) ==
    /\ IF "compat" \in S
       THEN /\ m_builtins = <<>> /\ m_api = <<>> /\ clientInfos = <<>> /\ cdFlags = {}
            /\ clientIssuesLists = <<>> /\ cdPc = "constructed" /\ rawSupport = NoEntry
       ELSE TRUE
    /\ IF "guard" \in S
       THEN gExpr = NoNode /\ gResult = [call |-> "none"]
       ELSE TRUE
    /\ IF "walker" \in S
       THEN /\ sourceFile = NoNode /\ m_compatChecker = <<>> /\ m_whitelist = {}
            /\ m_guardStack = <<>>
            /\ m_issuesFound = <<>> /\ guardStackAtUse = EmptyMap /\ visitTrace = <<>>
            /\ walkPc = "constructed"
       ELSE TRUE
    /\ IF "rule" \in S
       THEN /\ _cachedTargets = EmptyMap /\ _cachedFlags = {}
            /\ _cachedCompatChecker = [isNull |-> TRUE]
            /\ lastInit = [outcome |-> "none"]
       ELSE TRUE
    /\ IF "version" \in S
       THEN verArgs = [t |-> "none"] /\ verCalls = <<>>
       ELSE TRUE
    /\ IF "issuelist" \in S
       THEN /\ issueList = NewIssueList /\ issueSets = <<>> /\ issueLookup = [call |-> "none"]
            /\ scratch = <<>>
       ELSE TRUE
    /\ IF "targets" \in S
       THEN targetsGiven = EmptyMap /\ parsedTargets = [call |-> "none"]
       ELSE TRUE

(***************************************************************************)
(* The data and the targets of the model.                                  *)
(***************************************************************************)
\* The versions that appear in the data: every major.minor of the grid.
DataVersions == {MkVersion(a, b) : a \in 0..MaxMajor, b \in {0, 1}}

DigitChar(n) ==
    CASE n = 0 -> "0" [] n = 1 -> "1" [] n = 2 -> "2" [] n = 3 -> "3" [] n = 4 -> "4"
      [] n = 5 -> "5" [] n = 6 -> "6" [] n = 7 -> "7" [] n = 8 -> "8" [] n = 9 -> "9"

\* The version string "major.minor" of the data.
VersionString(v) == <<DigitChar(v.major), ".", DigitChar(v.minor)>>

RawStatement(added, removed, prefix, alt, flags, partial, notes) ==
    [version_added |-> added, version_removed |-> removed, prefix |-> prefix,
     alternative_name |-> alt, flags |-> flags, partial_implementation |-> partial,
     notes |-> notes]

\* Raw statements without any caveat or note, one per interval added <= removed.
PlainRawStatements ==
    {RawStatement(RawStr(VersionString(a)), RawStr(VersionString(r)), "", "", FALSE, FALSE, <<>>) :
        <<a, r>> \in {p \in DataVersions \X DataVersions : VersionCompare(p[1], p[2]) <= 0}}
    \cup {RawStatement(RawStr(VersionString(a)), RawUndefined, "", "", FALSE, FALSE, <<>>) :
        a \in DataVersions}
    \cup {RawStatement(RawBool(FALSE), RawUndefined, "", "", FALSE, FALSE, <<>>)}

\* Targets: min <= max, each a version of the grid or maxVal.
Targets(name) ==
    {ClientInfo(name, lo, hi) :
        <<lo, hi>> \in {p \in (DataVersions \cup {maxVal}) \X (DataVersions \cup {maxVal}) :
                          VersionCompare(p[1], p[2]) <= 0}}

\* A source with the single global Foo, whose record holds the entry for client "a".
FooSource(entry) ==
    <<[name |-> <<"Foo">>,
       compat |-> Compat("", [c \in ClientNames |-> IF c = "a" THEN entry ELSE NoEntry]),
       members |-> <<>>]>>

(***************************************************************************)
(* CompatData: construction and getIssues                                  *)
(***************************************************************************)
\* new CompatData(sourceData) for a source whose Foo has a list-valued entry.
InitCoverage ==
    /\ \E raw \in SeqsUpTo(PlainRawStatements, MaxStmts) \ {<<>>} :
           /\ rawSupport = ArrayEntry(raw)
           /\ m_builtins = FooSource(PreprocessSupportEntry(ArrayEntry(raw)))
    /\ m_api = <<>>
    /\ clientInfos = <<>>
    /\ cdFlags = {}
    /\ clientIssuesLists = <<>>
    /\ cdPc = "constructed"
    /\ Idle({"guard", "walker", "rule", "version", "issuelist", "targets"})

\* CompatData.getIssues(cis, flags)
GetIssues(cis, flags) ==
    /\ clientInfos' = cis
    /\ cdFlags' = flags
    /\ clientIssuesLists' = CompatDataGetIssues(m_builtins, m_api, cis, flags)
    /\ cdPc' = "derived"
    /\ UNCHANGED <<m_builtins, m_api, rawSupport, guardVars, walkerVars, ruleVars, versionVars, issueListVars, targetsVars>>

GetIssuesCoverage == \E ci \in Targets("a") : GetIssues(<<ci>>, {})

SpecCoverage == InitCoverage /\ [][GetIssuesCoverage]_vars

\* The issues a lookup of the global Foo returns for target i.
FooIssues(i) == GetIssuesForGlobal(clientIssuesLists[i], <<"Foo">>, <<>>)

\* The entry of client "a" in Foo's record.
FooEntry == m_builtins[1].compat.support["a"]

Kinds(iss) == [i \in 1..Len(iss) |-> iss[i].kind]

(***************************************************************************)
(* Coverage of a target by a list of support statements                    *)
(***************************************************************************)
\* Versions to probe: the grid of the data, the versions between and beyond its points.
ProbeVersions ==
    {MkVersion(a, b) : a \in 0..(MaxMajor + 1), b \in {0, 1, 2, _VERSION_MAX}}
    \cup {MkVersion(_VERSION_MAX, 0), maxVal}

InTarget(v, ci) ==
    VersionCompare(ci.minVersion, v) <= 0 /\ VersionCompare(v, ci.maxVersion) <= 0

InInterval(v, ss) ==
    VersionCompare(ss.version_added, v) <= 0 /\ VersionCompare(v, ss.version_removed) < 0

\* Every version of the target lies in the interval of some statement.
ContainedInUnion(ci, arr) ==
    \A v \in ProbeVersions :
        InTarget(v, ci) => \E i \in 1..Len(arr) : InInterval(v, arr[i])

\* C1: for a list in canonical order and a target min <= max, the coverage test
\* succeeds exactly when every version of the target lies in some statement's
\* interval [addedAt, removedAt); when it fails, the lookup reports exactly
\* NOT_SUPPORTED, and when it succeeds (statements without caveat) it reports nothing.
C1_CoverageIsContainment ==
    cdPc = "derived" =>
        LET ci == clientInfos[1]
            arr == FooEntry.ss
        IN  /\ CheckIfSupportedVersionArray(ci, arr, FALSE) <=> ContainedInUnion(ci, arr)
            /\ ~ContainedInUnion(ci, arr) <=> Kinds(FooIssues(1)) = <<NOT_SUPPORTED>>
            /\ ContainedInUnion(ci, arr) => FooIssues(1) = <<>>

\* C1 witness: a target covered by two or more statements none of which covers it alone.
C1_Witness ==
    /\ cdPc = "derived"
    /\ Len(FooEntry.ss) >= 2
    /\ ContainedInUnion(clientInfos[1], FooEntry.ss)
    /\ \A i \in 1..Len(FooEntry.ss) :
           ~CheckIfSupportedVersion(clientInfos[1], FooEntry.ss[i], FALSE)
    /\ FooIssues(1) = <<>>

(***************************************************************************)
(* Single statements with caveats, and pairs of statements with caveats    *)
(***************************************************************************)
\* The caveats of a raw statement: prefix, alternative name, flags, partial, notes.
RawNotes == {<<>>, <<"n">>, <<"<", "b", ">", "n", "&lt;">>}

\* The forms of a version in the data: "1.0" and "<=1.0" written with U+2264.
RawVersionForms(v) == {RawStr(VersionString(v)), RawStr(<<Char2264>> \o VersionString(v))}

\* Single statements: every interval of the grid in every raw form, with every caveat.
CaveatRawStatements ==
    {RawStatement(c[1][1], c[1][2], c[2], c[3], c[4], c[5], c[6]) :
        c \in ((UNION {RawVersionForms(a) \X (RawVersionForms(r) \cup {RawUndefined}) :
                        <<a, r>> \in {p \in DataVersions \X DataVersions :
                                         VersionCompare(p[1], p[2]) <= 0}})
                \cup ({RawBool(TRUE), RawBool(FALSE), [RawUndefined EXCEPT !.t = "null"]}
                      \X {RawUndefined}))
               \X {"", "moz"} \X {"", "mozFoo"} \X BOOLEAN \X BOOLEAN \X RawNotes}

\* Statements of a pair: whole majors, and one caveat at most besides a note.
PairRawStatements ==
    {RawStatement(RawStr(VersionString(MkVersion(c[1], 0))), c[2], c[3][1], "", FALSE, c[3][2], c[4]) :
        c \in {q \in (0..MaxMajor)
                       \X ({RawStr(VersionString(MkVersion(r, 0))) : r \in 0..MaxMajor}
                           \cup {RawUndefined})
                       \X {<<"", FALSE>>, <<"moz", FALSE>>, <<"", TRUE>>}
                       \X {<<>>, <<"n">>} :
                  q[2] = RawUndefined
                  \/ VersionCompare(MkVersion(q[1], 0), VersionFromString(q[2].s).val) <= 0}}

\* new CompatData(sourceData) for a source whose Foo has a single statement or a pair.
InitDerive ==
    /\ \/ \E raw \in CaveatRawStatements :
              /\ rawSupport = SingleEntry(raw)
              /\ m_builtins = FooSource(PreprocessSupportEntry(SingleEntry(raw)))
       \/ \E r1 \in PairRawStatements, r2 \in PairRawStatements :
              /\ rawSupport = ArrayEntry(<<r1, r2>>)
              /\ m_builtins = FooSource(PreprocessSupportEntry(ArrayEntry(<<r1, r2>>)))
    /\ m_api = <<>>
    /\ clientInfos = <<>>
    /\ cdFlags = {}
    /\ clientIssuesLists = <<>>
    /\ cdPc = "constructed"
    /\ Idle({"guard", "walker", "rule", "version", "issuelist", "targets"})

GetIssuesDerive ==
    /\ cdPc = "constructed"
    /\ \E ci \in Targets("a"), flags \in AllFlags : GetIssues(<<ci>>, flags)

SpecDerive == InitDerive /\ [][GetIssuesDerive]_vars

DerivedSingle == cdPc = "derived" /\ FooEntry.t = "single"

DerivedPair == cdPc = "derived" /\ FooEntry.t = "array"

Disjoint(ci, ss) ==
    VersionCompare(ci.maxVersion, ss.version_added) < 0
    \/ VersionCompare(ci.minVersion, ss.version_removed) >= 0

NotContained(ci, ss) ==
    VersionCompare(ci.minVersion, ss.version_added) < 0
    \/ VersionCompare(ci.maxVersion, ss.version_removed) >= 0

HasNotSupported(iss) == \E i \in 1..Len(iss) : iss[i].kind = NOT_SUPPORTED

\* C2 as stated: for a single support statement the feature is NOT_SUPPORTED exactly
\* when the target does not intersect the interval (target.max < addedAt or
\* target.min >= removedAt); otherwise no NOT_SUPPORTED and at most one issue.
C2_NotSupportedIffDisjoint ==
    DerivedSingle =>
        LET ci == clientInfos[1]
            ss == FooEntry.ss[1]
        IN  /\ HasNotSupported(FooIssues(1)) <=> Disjoint(ci, ss)
            /\ ~Disjoint(ci, ss) => Len(FooIssues(1)) <= 1

\* C2 amended: for a single support statement the feature is NOT_SUPPORTED exactly
\* when the target is not contained in the interval (target.min < addedAt or
\* target.max >= removedAt), and then it is the only issue; for every other target
\* no NOT_SUPPORTED issue is produced and at most one issue is produced.
C2_NotSupportedIffNotContained ==
    DerivedSingle =>
        LET ci == clientInfos[1]
            ss == FooEntry.ss[1]
        IN  /\ HasNotSupported(FooIssues(1)) <=> NotContained(ci, ss)
            /\ NotContained(ci, ss) => Kinds(FooIssues(1)) = <<NOT_SUPPORTED>>
            /\ ~NotContained(ci, ss) => Len(FooIssues(1)) <= 1

\* C2 witness: a target that overlaps the interval without lying inside it.
C2_Witness ==
    /\ DerivedSingle
    /\ ~Disjoint(clientInfos[1], FooEntry.ss[1])
    /\ NotContained(clientInfos[1], FooEntry.ss[1])
    /\ Kinds(FooIssues(1)) = <<NOT_SUPPORTED>>

(***************************************************************************)
(* A failed coverage test                                                  *)
(***************************************************************************)
\* C16: the issue list derived for a feature and a client target is either exactly one
\* NOT_SUPPORTED issue or holds no NOT_SUPPORTED issue: when the statements of the
\* record do not cover the target the list is the single NOT_SUPPORTED issue, whatever
\* caveats the statements carry, and when they cover it no NOT_SUPPORTED is derived.
C16_NotSupportedStandsAlone ==
    cdPc = "derived" =>
        LET Alone(iss, covered) ==
                /\ Kinds(iss) = <<NOT_SUPPORTED>> \/ ~HasNotSupported(iss)
                /\ ~covered => Kinds(iss) = <<NOT_SUPPORTED>>
                /\ covered => ~HasNotSupported(iss)
        IN  Alone(FooIssues(1), ContainedInUnion(clientInfos[1], FooEntry.ss))

\* Two statements with a prefix that both intersect the target and leave a version of
\* it uncovered: the list is the single NOT_SUPPORTED issue.
C16_Witness ==
    /\ DerivedPair
    /\ cdFlags = {}
    /\ \A i \in 1..2 : FooEntry.ss[i].prefix # "" /\ ~Disjoint(clientInfos[1], FooEntry.ss[i])
    /\ ~ContainedInUnion(clientInfos[1], FooEntry.ss)
    /\ Kinds(FooIssues(1)) = <<NOT_SUPPORTED>>

(***************************************************************************)
(* Priority of the kinds                                                   *)
(***************************************************************************)
PriorityOrder == <<NEEDS_PREFIX, NEEDS_ALT_NAME, NEEDS_FLAG, IS_PARTIAL_IMPL, NOTE>>

Applies(kind, ss) ==
    CASE kind = NEEDS_PREFIX -> ss.prefix # ""
      [] kind = NEEDS_ALT_NAME -> ss.alternative_name # ""
      [] kind = NEEDS_FLAG -> ss.flags
      [] kind = IS_PARTIAL_IMPL -> ss.partial_implementation
      [] kind = NOTE -> ss.notes # <<>>

\* The first kind of the order that applies, "null" when none does.
FirstThatApplies(ss) ==
    IF \E i \in 1..5 : Applies(PriorityOrder[i], ss)
    THEN PriorityOrder[CHOOSE i \in 1..5 :
             Applies(PriorityOrder[i], ss) /\ \A j \in 1..(i - 1) : ~Applies(PriorityOrder[j], ss)]
    ELSE "null"

\* The issue is the one statement ss yields: its versions and its first kind that applies.
IssueOfStatement(issue, ss) ==
    /\ issue.kind = FirstThatApplies(ss)
    /\ issue.startVersion = ss.version_added
    /\ issue.endVersion = ss.version_removed
    /\ issue.altOrPrefix = (IF issue.kind = NEEDS_PREFIX THEN ss.prefix
                            ELSE IF issue.kind = NEEDS_ALT_NAME THEN ss.alternative_name
                            ELSE "null")

Discarded(kind, flags) ==
    \/ kind = NOTE /\ IGNORE_NOTES \in flags
    \/ kind = IS_PARTIAL_IMPL /\ IGNORE_PARTIAL_IMPL \in flags

\* C8: each support statement yields at most one issue, of the first kind that
\* applies in the order NEEDS_PREFIX, NEEDS_ALT_NAME, NEEDS_FLAG, IS_PARTIAL_IMPL,
\* NOTE, and none when no kind applies; a statement with a prefix and a note yields
\* NEEDS_PREFIX and never NOTE.
C8_FirstKindThatApplies ==
    /\ DerivedSingle /\ ~HasNotSupported(FooIssues(1)) =>
           LET ss == FooEntry.ss[1]
               k == FirstThatApplies(ss)
           IN  /\ (k = "null" \/ Discarded(k, cdFlags)) => FooIssues(1) = <<>>
               /\ (k # "null" /\ ~Discarded(k, cdFlags)) =>
                      Len(FooIssues(1)) = 1 /\ IssueOfStatement(FooIssues(1)[1], ss)
               /\ (ss.prefix # "" /\ ss.notes # <<>>) => Kinds(FooIssues(1)) = <<NEEDS_PREFIX>>
    /\ DerivedPair /\ ~HasNotSupported(FooIssues(1)) =>
           LET arr == FooEntry.ss
               iss == FooIssues(1)
           IN  /\ Len(iss) <= Len(arr)
               /\ \E f \in [1..Len(iss) -> 1..Len(arr)] :
                      /\ \A i \in 1..Len(iss) : IssueOfStatement(iss[i], arr[f[i]])
                      /\ \A i, j \in 1..Len(iss) : i < j => f[i] < f[j]

\* C8 witness: a supported statement with a prefix and a note, reported as NEEDS_PREFIX.
C8_Witness ==
    /\ DerivedSingle
    /\ FooEntry.ss[1].prefix # "" /\ FooEntry.ss[1].notes # <<>>
    /\ cdFlags = {}
    /\ Kinds(FooIssues(1)) = <<NEEDS_PREFIX>>

(***************************************************************************)
(* The issues of a covered target                                          *)
(***************************************************************************)
\* The statements without prefix, alternative name, flag or partial mark.
CaveatFree(arr) == SelectSeq(arr, LAMBDA x : ~Applies(NEEDS_PREFIX, x) /\ ~Applies(NEEDS_ALT_NAME, x)
                                              /\ ~Applies(NEEDS_FLAG, x) /\ ~Applies(IS_PARTIAL_IMPL, x))

\* Statement ss contributes an issue for target ci: it intersects the target, some kind
\* applies to it, the kind is NOTE when only notes are emitted, and the flags keep it.
Contributes(ci, ss, onlyNotes, flags) ==
    /\ ~Disjoint(ci, ss)
    /\ FirstThatApplies(ss) # "null"
    /\ onlyNotes => FirstThatApplies(ss) = NOTE
    /\ ~Discarded(FirstThatApplies(ss), flags)

\* The indices of the statements of arr that contribute, in order.
Contributors(ci, arr, flags) ==
    LET Those(onlyNotes) ==
            SelectSeq([i \in 1..Len(arr) |-> i], LAMBDA i : Contributes(ci, arr[i], onlyNotes, flags))
    IN  Those(ContainedInUnion(ci, CaveatFree(arr)))

\* C17: when the statements of the record cover the target, the issues are, in order,
\* one issue per contributing statement, of its first kind that applies: when the
\* caveat-free statements alone cover the target only NOTE issues of caveat-free
\* statements with a note are emitted; otherwise every statement that intersects the
\* target (target.max >= addedAt and target.min < removedAt) contributes. A statement
\* that does not intersect the target, or is clean without a note, contributes nothing;
\* the kinds the flags leave out are dropped.
C17_IssuesOfCoveredTarget ==
    (cdPc = "derived" /\ ContainedInUnion(clientInfos[1], FooEntry.ss)) =>
        LET arr == FooEntry.ss
            Match(iss, from) ==
                /\ Len(iss) = Len(from)
                /\ \A j \in 1..Len(from) : IssueOfStatement(iss[j], arr[from[j]])
                /\ ContainedInUnion(clientInfos[1], CaveatFree(arr)) =>
                       \A j \in 1..Len(iss) : iss[j].kind = NOTE
        IN  Match(FooIssues(1), Contributors(clientInfos[1], arr, cdFlags))

\* A noted caveat-free statement covers the target and a prefixed statement intersects
\* it: the NOTE of the first is the only issue.
C17_Witness ==
    /\ DerivedPair
    /\ cdFlags = {}
    /\ ContainedInUnion(clientInfos[1], CaveatFree(FooEntry.ss))
    /\ \E i \in 1..2 : FooEntry.ss[i].prefix # "" /\ ~Disjoint(clientInfos[1], FooEntry.ss[i])
    /\ Kinds(FooIssues(1)) = <<NOTE>>

\* No statement covers the target alone, a prefixed statement and a noted statement
\* cover it together: each contributes its issue.
C17_WitnessBoth ==
    /\ DerivedPair
    /\ cdFlags = {}
    /\ ContainedInUnion(clientInfos[1], FooEntry.ss)
    /\ ~ContainedInUnion(clientInfos[1], CaveatFree(FooEntry.ss))
    /\ Len(FooIssues(1)) = 2
    /\ NOTE \in Range(Kinds(FooIssues(1))) /\ NEEDS_PREFIX \in Range(Kinds(FooIssues(1)))

(***************************************************************************)
(* The index over a source with several globals and members                *)
(***************************************************************************)
\* Statements of the features of the index: supported from the start without caveat,
\* with a note, partially, with a prefix and a note; never supported; added at 1.0
\* with a note.
IndexRawStatements ==
    {RawStatement(RawBool(TRUE), RawUndefined, "", "", FALSE, FALSE, <<>>),
     RawStatement(RawBool(TRUE), RawUndefined, "", "", FALSE, FALSE, <<"n">>),
     RawStatement(RawBool(TRUE), RawUndefined, "", "", FALSE, TRUE, <<>>),
     RawStatement(RawBool(TRUE), RawUndefined, "moz", "", FALSE, FALSE, <<"n">>),
     RawStatement(RawBool(FALSE), RawUndefined, "", "", FALSE, FALSE, <<>>),
     RawStatement(RawStr(VersionString(MkVersion(1, 0))), RawUndefined, "", "", FALSE, FALSE, <<"n">>)}

\* The __compat of a feature whose record for each client c of raws is the single
\* statement raws[c].
FeatureCompat(raws) ==
    Compat("", [c \in ClientNames |->
                   IF c \in DOMAIN raws THEN PreprocessSupportEntry(SingleEntry(raws[c]))
                   ELSE NoEntry])

\* javascript.builtins: the global Foo with the member bar.
BuiltinsSource(c) ==
    <<[name |-> <<"Foo">>, compat |-> FeatureCompat("a" :> c[1]),
       members |-> <<[name |-> <<"__", "compat">>, compat |-> NoCompat],
                     [name |-> <<"bar">>, compat |-> FeatureCompat("a" :> c[2])]>>]>>

\* api: EventTarget and Window, interfaces of the global window, each with a member foo.
ApiSource(c) ==
    <<[name |-> <<"EventTarget">>, compat |-> NoCompat,
       members |-> <<[name |-> <<"foo">>, compat |-> FeatureCompat("a" :> c[3])]>>],
      [name |-> <<"Window">>, compat |-> NoCompat,
       members |-> <<[name |-> <<"foo">>, compat |-> FeatureCompat("a" :> c[4])],
                     [name |-> <<"click", "_event">>, compat |-> FeatureCompat("a" :> c[5])]>>]>>

IndexTargetLists ==
    {<<ClientInfo("a", minVal, minVal)>>,
     <<ClientInfo("a", MkVersion(1, 0), maxVal)>>,
     <<ClientInfo("a", minVal, maxVal), ClientInfo("b", minVal, maxVal)>>}

\* new CompatData(sourceData)
InitIndex ==
    /\ \E c \in [1..5 -> IndexRawStatements] :
           m_builtins = BuiltinsSource(c) /\ m_api = ApiSource(c)
    /\ rawSupport = NoEntry         \* these sources have no global Foo
    /\ clientInfos = <<>>
    /\ cdFlags = {}
    /\ clientIssuesLists = <<>>
    /\ cdPc = "constructed"
    /\ Idle({"guard", "walker", "rule", "version", "issuelist", "targets"})

GetIssuesIndex ==
    /\ cdPc = "constructed"
    /\ \E cis \in IndexTargetLists, flags \in AllFlags : GetIssues(cis, flags)

SpecIndex == InitIndex /\ [][GetIssuesIndex]_vars

GlobalKeys == {<<"Foo">>, <<"bar">>, <<"foo">>, <<"click">>, <<"Window">>, <<"EventTarget">>}

MemberKeys ==
    {<<"Foo">>, <<"Window">>, <<"EventTarget">>} \X {<<"bar">>, <<"foo">>, <<"click">>} \X BOOLEAN

\* The issues of a lookup result that the flags do not ask to leave out.
WithoutIgnored(iss, flags) == SelectSeq(iss, LAMBDA x : ~Discarded(x.kind, flags))

\* C7: for every lookup key and every client target, the index built with flags F
\* returns the issues of the index built from the same data with no flags, minus the
\* NOTE issues when IGNORE_NOTES is in F and the IS_PARTIAL_IMPL issues when
\* IGNORE_PARTIAL_IMPL is in F; nothing else is added, removed or replaced.
C7_FlagsOnlyFilter ==
    cdPc = "derived" =>
        LET unflagged == CompatDataGetIssues(m_builtins, m_api, clientInfos, {})
        IN  \A i \in 1..Len(clientInfos) :
                /\ \A g \in GlobalKeys :
                       GetIssuesForGlobal(clientIssuesLists[i], g, <<>>)
                           = WithoutIgnored(GetIssuesForGlobal(unflagged[i], g, <<>>), cdFlags)
                /\ \A k \in MemberKeys :
                       GetIssuesForPropertyOrEvent(clientIssuesLists[i], k[1], k[2], k[3], <<>>)
                           = WithoutIgnored(GetIssuesForPropertyOrEvent(unflagged[i], k[1], k[2], k[3], <<>>),
                                            cdFlags)

(***************************************************************************)
(* The syntax tree and the type checker                                    *)
(***************************************************************************)
\* Nodes are records with the fields of the TypeScript node; the name of a property
\* access is its text, and the operand of a prefix operator is its expression.
Identifier(text, pos) == [kind |-> "Identifier", text |-> text, pos |-> pos]

StringLiteral(text) == [kind |-> "StringLiteral", text |-> text]

\* ParenthesizedExpression, TypeOfExpression
Unary(kind, e) == [kind |-> kind, expression |-> e]

PrefixUnaryExpression(operator, e) ==
    [kind |-> "PrefixUnaryExpression", operator |-> operator, expression |-> e]

BinaryExpression(left, op, right) ==
    [kind |-> "BinaryExpression", left |-> left, operatorToken |-> op, right |-> right]

PropertyAccessExpression(e, name) ==
    [kind |-> "PropertyAccessExpression", expression |-> e, name |-> name]

\* A ts.Symbol: its name, its valueDeclaration, whether a library file declares it.
Symbol(name, valueDeclaration, lib) ==
    [name |-> name, valueDeclaration |-> valueDeclaration, lib |-> lib]

\* No symbol: null, or the undefined the type checker answers.
NullSymbol == Symbol(NullName, "null", FALSE)

\* The program's declarations: the library declares the globals A and B, functions that
\* return a W, and the names C and D, whose symbols have declarations but no
\* valueDeclaration; the program declares the variable w, a W; W has the members m and
\* A; nothing else resolves.
GetSymbolAtLocation(node) ==
    IF node.text \in {"A", "B"} THEN Symbol(<<node.text>>, node.text, TRUE)
    ELSE IF node.text \in {"C", "D"} THEN Symbol(<<node.text>>, "undefined", TRUE)
    ELSE IF node.text = "w" THEN Symbol(<<"w">>, "w", FALSE)
    ELSE NullSymbol

\* The members of the type W.
MemberOfW(name) ==
    IF name = "m" THEN Symbol(<<"m">>, "W.m", TRUE)
    ELSE IF name = "A" THEN Symbol(<<"A">>, "W.A", TRUE)
    ELSE NullSymbol

RECURSIVE GetPropertyOfType(_, _)
\* getPropertyOfType(getApparentType(getTypeAtLocation(obj)), name): w and the calls of
\* the model are of type W (a call has the member m only), and an expression in
\* parentheses has the type of the expression inside.
GetPropertyOfType(obj, name) ==
    IF obj.kind = "ParenthesizedExpression" THEN GetPropertyOfType(obj.expression, name)
    ELSE IF obj.kind = "Identifier" /\ obj.text = "w" THEN MemberOfW(name)
    ELSE IF obj.kind = "CallExpression" /\ name = "m" THEN MemberOfW(name)
    ELSE NullSymbol

(***************************************************************************)
(* GuardExprChecker.ts                                                     *)
(***************************************************************************)
RECURSIVE UnwrapParentheses(_)
\* _unwrapParentheses
UnwrapParentheses(expr) ==
    IF expr.kind = "ParenthesizedExpression" THEN UnwrapParentheses(expr.expression) ELSE expr

\* An unwrapping that takes a single leading NOT.
UnwrapSingleNegation(expr, isNegative) ==
    LET e == UnwrapParentheses(expr)
    IN  IF e.kind # "PrefixUnaryExpression" \/ e.operator # "!" THEN <<e, isNegative>>
        ELSE <<UnwrapParentheses(e.expression), ~isNegative>>

RECURSIVE UnwrapNegations(_, _)
\* _unwrapNegations: <<expr, isNegative>>, isNegative the value so far
UnwrapNegations(expr, isNegative) ==
    LET e == UnwrapParentheses(expr)
    IN  IF e.kind # "PrefixUnaryExpression" \/ e.operator # "!" THEN <<e, isNegative>>
        ELSE UnwrapNegations(e.expression, ~isNegative)

\* _isUndefinedExpression
IsUndefinedExpression(expr) ==
    expr.kind = "UndefinedKeyword" \/ (expr.kind = "Identifier" /\ expr.text = "undefined")

\* _isStringLiteralOrNullOrUndefined
IsStringLiteralOrNullOrUndefined(expr) ==
    \/ expr.kind \in {"StringLiteral", "NullKeyword", "UndefinedKeyword"}
    \/ (expr.kind = "Identifier" /\ expr.text \in {"undefined", "null"})

GuardExpression(operand, guardedSymbol, isNegated) ==
    [t |-> "GuardExpression", operand |-> operand, guardedSymbol |-> guardedSymbol,
     isNegated |-> isNegated]

GuardExprChain(expressions, operator, isNegated) ==
    [t |-> "GuardExprChain", expressions |-> expressions, operator |-> operator,
     isNegated |-> isNegated]

\* A resolve target read from the operand whether or not a symbol is guarded.
GetSymbolResolveTargetOfOperand(g) ==
    IF g.operand.kind = "PropertyAccessExpression" THEN g.operand.expression
    ELSE IF g.operand.kind = "BinaryExpression" /\ g.operand.operatorToken = "in"
         THEN g.operand.right
    ELSE NoNode

\* GuardExpression.getSymbolResolveTarget
GetSymbolResolveTarget(g) ==
    IF g.guardedSymbol = NullSymbol THEN NoNode
    ELSE IF g.operand.kind = "PropertyAccessExpression" THEN g.operand.expression
    ELSE IF g.operand.kind = "BinaryExpression" /\ g.operand.operatorToken = "in"
         THEN g.operand.right
    ELSE NoNode

\* The typeof test with "!=" in place of "==" for a literal other than "undefined".
EvaluateTypeofCheckNotEquals(f, operand, type, isNotEquals) ==
    IF type = "undefined"
    THEN [f EXCEPT !.m_operand = UnwrapParentheses(operand), !.m_isNegative = ~isNotEquals,
                   !.m_isTypeof = TRUE]
    ELSE IF isNotEquals
    THEN [f EXCEPT !.m_operand = UnwrapParentheses(operand), !.m_isNegative = FALSE,
                   !.m_isTypeof = TRUE]
    ELSE f

\* _evaluateTypeofCheckExpression; f holds the fields m_operand, m_propertyObj,
\* m_propertyName, m_isTypeof, m_isNegative of the checker.
EvaluateTypeofCheckExpression(f, operand, type, isNotEquals) ==
    IF type = "undefined"
    THEN [f EXCEPT !.m_operand = UnwrapParentheses(operand), !.m_isNegative = ~isNotEquals,
                   !.m_isTypeof = TRUE]
    ELSE IF ~isNotEquals
    THEN [f EXCEPT !.m_operand = UnwrapParentheses(operand), !.m_isNegative = FALSE,
                   !.m_isTypeof = TRUE]
    ELSE f

\* An equality test that takes a strict comparison with null like a loose one.
EvaluateEqualityWithStrictNull(f, left0, right0, isNotEquals, isStrict) ==
    LET swap == IsStringLiteralOrNullOrUndefined(left0)
        left == IF swap THEN right0 ELSE left0
        right == IF swap THEN left0 ELSE right0
    IN  IF IsUndefinedExpression(right) \/ right.kind = "NullKeyword"
        THEN [f EXCEPT !.m_operand = UnwrapParentheses(left), !.m_isNegative = ~isNotEquals]
        ELSE IF left.kind = "TypeOfExpression" /\ right.kind = "StringLiteral"
        THEN EvaluateTypeofCheckExpression(f, left.expression, right.text, isNotEquals)
        ELSE f

\* _evaluateEqualityExpression
EvaluateEqualityExpression(f, left0, right0, isNotEquals, isStrict) ==
    LET swap == IsStringLiteralOrNullOrUndefined(left0)
        left == IF swap THEN right0 ELSE left0
        right == IF swap THEN left0 ELSE right0
    IN  IF IsUndefinedExpression(right) \/ (~isStrict /\ right.kind = "NullKeyword")
        THEN [f EXCEPT !.m_operand = UnwrapParentheses(left), !.m_isNegative = ~isNotEquals]
        ELSE IF left.kind = "TypeOfExpression" /\ right.kind = "StringLiteral"
        THEN EvaluateTypeofCheckExpression(f, left.expression, right.text, isNotEquals)
        ELSE f

\* _evaluateBinaryExpression
EvaluateBinaryExpression(f) ==
    LET expr == f.m_operand
        op == expr.operatorToken
        left == UnwrapParentheses(expr.left)
        right == UnwrapParentheses(expr.right)
    IN  IF op = "in" /\ left.kind = "StringLiteral"
        THEN [f EXCEPT !.m_propertyObj = right, !.m_propertyName = left.text]
        ELSE IF op \in {"==", "===", "!=", "!=="}
        THEN EvaluateEqualityExpression(f, left, right, op \in {"!=", "!=="}, op \in {"===", "!=="})
        ELSE f

\* _tryResolveSymbol
TryResolveSymbol(f) ==
    IF f.m_propertyName # "(null)" THEN GetPropertyOfType(f.m_propertyObj, f.m_propertyName)
    ELSE IF f.m_isTypeof /\ f.m_operand.kind = "Identifier" THEN GetSymbolAtLocation(f.m_operand)
    ELSE NullSymbol

\* An evaluate that withholds the symbol when the required polarity is met.
EvaluateWithholdingOnMatch(expr0, mustBePosOrNeg) ==
    LET Fields(operand) ==
            [m_operand |-> operand, m_propertyObj |-> NoNode, m_propertyName |-> "(null)",
             m_isNegative |-> FALSE, m_isTypeof |-> FALSE]
        WithProperty(f) ==
            IF f.m_propertyName = "(null)" /\ f.m_operand.kind = "PropertyAccessExpression"
            THEN [f EXCEPT !.m_propertyObj = f.m_operand.expression,
                           !.m_propertyName = f.m_operand.name]
            ELSE f
        Result(f) ==
            IF mustBePosOrNeg = (IF f.m_isNegative THEN "false" ELSE "true")
            THEN GuardExpression(f.m_operand, NullSymbol, f.m_isNegative)
            ELSE GuardExpression(f.m_operand, TryResolveSymbol(WithProperty(f)), f.m_isNegative)
        Negated(f, isNegative) ==
            Result(IF isNegative THEN [f EXCEPT !.m_isNegative = ~f.m_isNegative] ELSE f)
        Unwrapped(un) ==
            Negated(IF un[1].kind = "BinaryExpression"
                    THEN EvaluateBinaryExpression(Fields(un[1]))
                    ELSE Fields(un[1]),
                    un[2])
    IN  Unwrapped(UnwrapNegations(expr0, FALSE))

\* GuardExprChecker.evaluate; mustBePosOrNeg is "null", "true" or "false".
Evaluate(expr0, mustBePosOrNeg) ==
    LET Fields(operand) ==
            [m_operand |-> operand, m_propertyObj |-> NoNode, m_propertyName |-> "(null)",
             m_isNegative |-> FALSE, m_isTypeof |-> FALSE]
        WithProperty(f) ==
            IF f.m_propertyName = "(null)" /\ f.m_operand.kind = "PropertyAccessExpression"
            THEN [f EXCEPT !.m_propertyObj = f.m_operand.expression,
                           !.m_propertyName = f.m_operand.name]
            ELSE f
        Result(f) ==
            IF mustBePosOrNeg = (IF f.m_isNegative THEN "true" ELSE "false")
            THEN GuardExpression(f.m_operand, NullSymbol, f.m_isNegative)
            ELSE GuardExpression(f.m_operand, TryResolveSymbol(WithProperty(f)), f.m_isNegative)
        Negated(f, isNegative) ==
            Result(IF isNegative THEN [f EXCEPT !.m_isNegative = ~f.m_isNegative] ELSE f)
        Unwrapped(un) ==
            Negated(IF un[1].kind = "BinaryExpression"
                    THEN EvaluateBinaryExpression(Fields(un[1]))
                    ELSE Fields(un[1]),
                    un[2])
    IN  Unwrapped(UnwrapNegations(expr0, FALSE))

RECURSIVE EvaluateChainOperandsAnyOperator(_, _)
\* The operands flattened through && and || alike.
EvaluateChainOperandsAnyOperator(expr0, op) ==
    LET expr == UnwrapParentheses(expr0)
    IN  IF expr.kind = "BinaryExpression" /\ expr.operatorToken \in {"&&", "||"}
        THEN EvaluateChainOperandsAnyOperator(expr.left, op)
                 \o EvaluateChainOperandsAnyOperator(expr.right, op)
        ELSE <<Evaluate(expr, IF op = "&&" THEN "true" ELSE "false")>>

RECURSIVE EvaluateChainOperands(_, _)
\* _evaluateChainOperands: the guard expressions it pushes
EvaluateChainOperands(expr0, op) ==
    LET expr == UnwrapParentheses(expr0)
    IN  IF expr.kind = "BinaryExpression" /\ expr.operatorToken = op
        THEN EvaluateChainOperands(expr.left, op) \o EvaluateChainOperands(expr.right, op)
        ELSE <<Evaluate(expr, IF op = "&&" THEN "true" ELSE "false")>>

\* GuardExprChecker.evaluateChain
EvaluateChain(expr) ==
    LET Unwrapped(un) ==
            IF un[1].kind # "BinaryExpression" \/ un[1].operatorToken \notin {"&&", "||"}
            THEN Evaluate(expr, "null")
            ELSE GuardExprChain(EvaluateChainOperands(un[1], un[1].operatorToken),
                                un[1].operatorToken, un[2])
    IN  Unwrapped(UnwrapNegations(expr, FALSE))

(***************************************************************************)
(* Guard expressions: the expressions of the model                         *)
(***************************************************************************)
RECURSIVE Wrap(_, _)
\* e inside n pairs of parentheses
Wrap(e, n) == IF n = 0 THEN e ELSE Unary("ParenthesizedExpression", Wrap(e, n - 1))

\* typeof(X) compared with a string literal: c = <<X, literal, operator, literal first,
\* parentheses around X, around typeof X, around the literal, around the comparison>>.
TypeofComparison(c) ==
    LET ty == Wrap(Unary("TypeOfExpression", Wrap(c[1], c[5])), c[6])
        lit == Wrap(StringLiteral(c[2]), c[7])
    IN  Wrap(IF c[4] THEN BinaryExpression(lit, c[3], ty) ELSE BinaryExpression(ty, c[3], lit), c[8])

TypeofComparisons ==
    {TypeofComparison(c) :
        c \in {Identifier("A", 0), Identifier("u", 0),
               PropertyAccessExpression(Identifier("w", 0), "m"),
               PropertyAccessExpression(Identifier("w", 0), "z"),
               BinaryExpression(StringLiteral("m"), "in", Identifier("w", 0)),
               Unary("TypeOfExpression", Identifier("A", 0))}
              \X {"undefined", "function", "object"} \X {"==", "===", "!=", "!=="} \X BOOLEAN
              \X {0, 1} \X {0, 1, 2} \X {0, 1, 2} \X {0, 1}}

\* A positive guard, a negative guard and a property access.
GuardLeaves ==
    {TypeofComparison(<<Identifier("A", 0), "undefined", "!==", FALSE, 1, 0, 0, 0>>),
     TypeofComparison(<<Identifier("B", 0), "undefined", "===", FALSE, 1, 0, 0, 0>>),
     PropertyAccessExpression(Identifier("w", 0), "m")}

\* The && and || expressions over a set of operands.
Chains(operands) ==
    {BinaryExpression(c[1], c[2], c[3]) : c \in operands \X {"&&", "||"} \X operands}

\* An expression, in parentheses, negated and negated twice.
Negations(exprs) ==
    exprs \cup {Wrap(e, 1) : e \in exprs}
          \cup {PrefixUnaryExpression("!", Wrap(e, 1)) : e \in exprs}
          \cup {PrefixUnaryExpression("!", PrefixUnaryExpression("!", Wrap(e, 1))) : e \in exprs}

\* Conditions: a leaf, or a chain whose operands are leaves, negated leaves and
\* chains of leaves (bare, in parentheses, negated).
ChainExprs ==
    LET operands == GuardLeaves \cup {PrefixUnaryExpression("!", l) : l \in GuardLeaves}
                        \cup (Negations(Chains(GuardLeaves))
                                \ {PrefixUnaryExpression("!", PrefixUnaryExpression("!", Wrap(e, 1))) :
                                      e \in Chains(GuardLeaves)})
    IN  operands \cup Negations(Chains(operands))

\* new GuardExprChecker(typeChecker), and an expression to evaluate
InitGuard ==
    /\ gExpr \in TypeofComparisons \cup ChainExprs
    /\ gResult = [call |-> "none"]
    /\ Idle({"compat", "walker", "rule", "version", "issuelist", "targets"})

\* GuardExprChecker.evaluate(gExpr, mustBePosOrNeg)
EvaluateCall ==
    /\ gResult.call = "none"
    /\ \E mustBePosOrNeg \in {"null", "true", "false"} :
           gResult' = [call |-> "evaluate", mustBePosOrNeg |-> mustBePosOrNeg,
                       ret |-> Evaluate(gExpr, mustBePosOrNeg)]
    /\ UNCHANGED <<gExpr, compatVars, walkerVars, ruleVars, versionVars, issueListVars, targetsVars>>

\* GuardExprChecker.evaluateChain(gExpr)
EvaluateChainCall ==
    /\ gResult.call = "none"
    /\ gResult' = [call |-> "evaluateChain", mustBePosOrNeg |-> "null", ret |-> EvaluateChain(gExpr)]
    /\ UNCHANGED <<gExpr, compatVars, walkerVars, ruleVars, versionVars, issueListVars, targetsVars>>

SpecGuard == InitGuard /\ [][EvaluateCall \/ EvaluateChainCall]_vars

(***************************************************************************)
(* Guard recognition                                                       *)
(***************************************************************************)
RECURSIVE StripParens(_)
StripParens(e) == IF e.kind = "ParenthesizedExpression" THEN StripParens(e.expression) ELSE e

IsNot(e) == e.kind = "PrefixUnaryExpression" /\ e.operator = "!"

RECURSIVE StripNots(_)
\* The expression without its parentheses and leading NOTs.
StripNots(e) ==
    IF IsNot(StripParens(e)) THEN StripNots(StripParens(e).expression) ELSE StripParens(e)

RECURSIVE OddNots(_)
\* The parity of the leading NOTs.
OddNots(e) == IF IsNot(StripParens(e)) THEN ~OddNots(StripParens(e).expression) ELSE FALSE

IsTypeofComparison(e) ==
    LET cmp == StripParens(e)
    IN  /\ cmp.kind = "BinaryExpression"
        /\ cmp.operatorToken \in {"==", "===", "!=", "!=="}
        /\ {StripParens(cmp.left).kind, StripParens(cmp.right).kind}
               = {"TypeOfExpression", "StringLiteral"}

\* The identity of X: its symbol, the member of a property access, or none.
IdentityOf(X) ==
    IF X.kind = "Identifier" THEN GetSymbolAtLocation(X)
    ELSE IF X.kind = "PropertyAccessExpression" THEN GetPropertyOfType(X.expression, X.name)
    ELSE NullSymbol

\* C5: a comparison of typeof(X) with a string literal, in either order and through any
\* parentheses: with 'undefined', == / === is a negative guard on X and != / !== a
\* positive guard on X; with another literal, == / === is a positive guard on X and
\* != / !== is no guard (the operand is the comparison, without identity). The identity
\* is X's symbol, or the member of the property access X, when it resolves.
C5_TypeofComparisonGuards ==
    (gResult.call = "evaluate" /\ gResult.mustBePosOrNeg = "null" /\ IsTypeofComparison(gExpr)) =>
        LET cmp == StripParens(gExpr)
            l == StripParens(cmp.left)
            r == StripParens(cmp.right)
            lit == IF l.kind = "StringLiteral" THEN l.text ELSE r.text
            X == StripParens(IF l.kind = "TypeOfExpression" THEN l.expression ELSE r.expression)
            isEquals == cmp.operatorToken \in {"==", "==="}
        IN  gResult.ret = IF lit = "undefined" THEN GuardExpression(X, IdentityOf(X), isEquals)
                          ELSE IF isEquals THEN GuardExpression(X, IdentityOf(X), FALSE)
                          ELSE GuardExpression(cmp, NullSymbol, FALSE)

\* C5 witness: ('undefined') == (typeof (w.m)) evaluated: a negative guard on the member m.
C5_Witness ==
    /\ gResult.call = "evaluate" /\ gResult.mustBePosOrNeg = "null"
    /\ IsTypeofComparison(gExpr)
    /\ StripParens(gExpr).left.kind = "ParenthesizedExpression"
    /\ StripParens(StripParens(gExpr).left).kind = "StringLiteral"
    /\ gResult.ret.isNegated
    /\ gResult.ret.operand.kind = "PropertyAccessExpression"
    /\ gResult.ret.guardedSymbol = Symbol(<<"m">>, "W.m", TRUE)

IsChain(e) == e.kind = "BinaryExpression" /\ e.operatorToken \in {"&&", "||"}

RECURSIVE Flatten(_, _)
\* The operands of the contiguous uses of op, in source order.
Flatten(e, op) ==
    IF StripParens(e).kind = "BinaryExpression" /\ StripParens(e).operatorToken = op
    THEN Flatten(StripParens(e).left, op) \o Flatten(StripParens(e).right, op)
    ELSE <<e>>

\* C6: evaluateChain returns a single guard expression when the expression without
\* parentheses and leading NOTs is not a && or || expression; otherwise a chain of the
\* leaves of the contiguous operands of that operator in source order, negated by the
\* parity of the leading NOTs, its leaves evaluated with required polarity positive for
\* && and negative for ||: an item with an identity is positive in an && chain and
\* negative in an || chain, and a leaf that is itself a (negated) chain has no identity.
C6_ChainFlattening ==
    gResult.call = "evaluateChain" =>
        LET core == StripNots(gExpr)
            ret == gResult.ret
            leaves == Flatten(core, core.operatorToken)
        IN  IF ~IsChain(core)
            THEN ret.t = "GuardExpression" /\ ret = Evaluate(gExpr, "null")
            ELSE /\ ret.t = "GuardExprChain"
                 /\ ret.operator = core.operatorToken
                 /\ ret.isNegated = OddNots(gExpr)
                 /\ Len(ret.expressions) = Len(leaves)
                 /\ \A i \in 1..Len(leaves) :
                        /\ ret.expressions[i]
                               = Evaluate(leaves[i], IF ret.operator = "&&" THEN "true" ELSE "false")
                        /\ ret.expressions[i].guardedSymbol # NullSymbol =>
                               ret.expressions[i].isNegated = (ret.operator = "||")
                        /\ IsChain(StripNots(leaves[i])) =>
                               ret.expressions[i].guardedSymbol = NullSymbol

\* C6 witness: a negated || chain of three leaves, one a negative guard with an
\* identity, one a sub-expression of && kept as a single leaf.
C6_Witness ==
    /\ gResult.call = "evaluateChain"
    /\ gResult.ret.t = "GuardExprChain"
    /\ gResult.ret.operator = "||" /\ gResult.ret.isNegated
    /\ Len(gResult.ret.expressions) = 3
    /\ gResult.ret.expressions[1].guardedSymbol # NullSymbol
    /\ gResult.ret.expressions[1].isNegated
    /\ IsChain(gResult.ret.expressions[3].operand)
    /\ gResult.ret.expressions[3].operand.operatorToken = "&&"

(***************************************************************************)
(* Walker.ts                                                               *)
(***************************************************************************)
CallExpression(expression, arguments) ==
    [kind |-> "CallExpression", expression |-> expression, arguments |-> arguments]

IfStatement(expression, thenStatement, elseStatement) ==
    [kind |-> "IfStatement", expression |-> expression, thenStatement |-> thenStatement,
     elseStatement |-> elseStatement]

ConditionalExpression(condition, whenTrue, whenFalse) ==
    [kind |-> "ConditionalExpression", condition |-> condition, whenTrue |-> whenTrue,
     whenFalse |-> whenFalse]

\* Block, SourceFile
Block(statements) == [kind |-> "Block", statements |-> statements]

\* node.forEachChild: the children with an expression or a statement below them
Children(node) ==
    CASE node.kind = "Block" -> node.statements
      [] node.kind \in {"ParenthesizedExpression", "TypeOfExpression", "ExpressionStatement",
                        "PrefixUnaryExpression", "PropertyAccessExpression"} -> <<node.expression>>
      [] node.kind = "BinaryExpression" -> <<node.left, node.right>>
      [] OTHER -> <<>>

RECURSIVE ClientCheckGlobal(_, _, _, _)
\* ClientCompatChecker.checkGlobal: the issues array after the lists from i on
ClientCheckGlobal(lists, name, i, issues) ==
    IF i > Len(lists) THEN issues
    ELSE ClientCheckGlobal(lists, name, i + 1, GetIssuesForGlobal(lists[i], name, issues))

\* _canIssuesBeSuppressedByGuards
CanIssuesBeSuppressedByGuards(issues) ==
    \E i \in 1..Len(issues) :
        issues[i].kind \in {NOT_SUPPORTED, NEEDS_PREFIX, NEEDS_ALT_NAME, NEEDS_FLAG}

\* _checkEnclosingGuards
CheckEnclosingGuards(issues, symbol, guardStack) ==
    IF ~CanIssuesBeSuppressedByGuards(issues) THEN FALSE
    ELSE \E i \in 1..Len(guardStack) : symbol.valueDeclaration = guardStack[i].valueDeclaration

\* The check that withholds, under a matching guard, only the issues of the kinds that
\* guards can suppress.
CheckGlobalIssueByIssue(node, symbol, w) ==
    LET Reported(issues) ==
            IF symbol = NullSymbol \/ symbol.name \in m_whitelist \/ ~symbol.lib THEN <<>>
            ELSE IF CheckEnclosingGuards(issues, symbol, w.stack)
            THEN SelectSeq(issues, LAMBDA x : ~CanIssuesBeSuppressedByGuards(<<x>>))
            ELSE issues
        Found(reported) ==
            w.found \o [i \in 1..Len(reported) |-> [pos |-> node.pos, issue |-> reported[i]]]
    IN  [stack |-> w.stack,
         found |-> Found(Reported(ClientCheckGlobal(m_compatChecker, symbol.name, 1, <<>>))),
         atUse |-> MapSet(w.atUse, node.pos, [symbol |-> symbol, stack |-> w.stack]),
         visits |-> w.visits]

\* _checkGlobal and _reportIssues; w holds the guard stack, the issues found, the symbol
\* and guard stack of each check by position, and the record of each _visit.
CheckGlobal(node, symbol, w) ==
    LET issues == ClientCheckGlobal(m_compatChecker, symbol.name, 1, <<>>)
        hasIssues == /\ symbol # NullSymbol
                     /\ symbol.name \notin m_whitelist
                     /\ Len(issues) # 0
                     /\ symbol.lib
                     /\ ~CheckEnclosingGuards(issues, symbol, w.stack)
    IN  [stack |-> w.stack,
         found |-> IF hasIssues
                   THEN w.found \o [i \in 1..Len(issues) |-> [pos |-> node.pos, issue |-> issues[i]]]
                   ELSE w.found,
         atUse |-> MapSet(w.atUse, node.pos, [symbol |-> symbol, stack |-> w.stack]),
         visits |-> w.visits]

RECURSIVE VisitEach(_, _, _)
RECURSIVE VisitGuardExprChainAndPushSymbols(_, _, _, _)

\* this.m_guardStack.push(symbol)
PushSymbol(w, symbol) == [w EXCEPT !.stack = Append(w.stack, symbol)]

\* The stack left as the guards of the condition made it.
KeepStack(w, oldGuardStackDepth) == w

\* this.m_guardStack.length = oldGuardStackDepth
TruncateStack(w, oldGuardStackDepth) ==
    [w EXCEPT !.stack = SubSeq(w.stack, 1, oldGuardStackDepth)]

\* The guarded symbol pushed before its resolve target is visited.
PushSymbolThenVisit(guardExpr, sourceExpr, w) ==
    IF guardExpr.guardedSymbol # NullSymbol
    THEN VisitEach(<<GetSymbolResolveTarget(guardExpr)>>, 1, PushSymbol(w, guardExpr.guardedSymbol))
    ELSE IF guardExpr.operand = sourceExpr THEN VisitEach(Children(guardExpr.operand), 1, w)
    ELSE VisitEach(<<guardExpr.operand>>, 1, w)

\* _visitGuardExpressionAndPushSymbol
VisitGuardExpressionAndPushSymbol(guardExpr, sourceExpr, w) ==
    IF guardExpr.guardedSymbol # NullSymbol
    THEN PushSymbol(VisitEach(<<GetSymbolResolveTarget(guardExpr)>>, 1, w), guardExpr.guardedSymbol)
    ELSE IF guardExpr.operand = sourceExpr THEN VisitEach(Children(guardExpr.operand), 1, w)
    ELSE VisitEach(<<guardExpr.operand>>, 1, w)

\* _visitGuardExprChainAndPushSymbols, from expression i
VisitGuardExprChainAndPushSymbols(chain, sourceExpr, i, w) ==
    IF i > Len(chain.expressions) THEN w
    ELSE VisitGuardExprChainAndPushSymbols(chain, sourceExpr, i + 1,
             VisitGuardExpressionAndPushSymbol(chain.expressions[i], sourceExpr, w))

\* The guards of an evaluated condition visited and pushed.
VisitGuards(g, sourceExpr, w) ==
    IF g.t = "GuardExpression" THEN VisitGuardExpressionAndPushSymbol(g, sourceExpr, w)
    ELSE VisitGuardExprChainAndPushSymbols(g, sourceExpr, 1, w)

\* _visitCallOrNew; no callee of the model is a member, so no addEventListener call
VisitCallOrNew(node, w) ==
    IF node.expression.kind = "Identifier"
    THEN VisitEach(node.arguments, 1,
                   CheckGlobal(node.expression, GetSymbolAtLocation(node.expression), w))
    ELSE VisitEach(<<node.expression>> \o node.arguments, 1, w)

\* _visitBinaryExpression
VisitBinaryExpression(node, w) ==
    IF node.operatorToken \notin {"&&", "||", "==", "===", "!=", "!==", "in"}
    THEN VisitEach(<<node.left, node.right>>, 1, w)
    ELSE TruncateStack(VisitGuards(EvaluateChain(node), node, w), Len(w.stack))

\* The branches visited with guardsApplyToElse = isNegated, whatever the operator.
VisitIfIgnoringOperator(g, condition, thenNode, elseNode, w) ==
    LET first == IF g.isNegated THEN elseNode ELSE thenNode
        second == IF g.isNegated THEN thenNode ELSE elseNode
    IN  VisitEach(<<second>>, 1,
                  TruncateStack(VisitEach(<<first>>, 1, VisitGuards(g, condition, w)), Len(w.stack)))

\* _visitIfStatementOrExpr, g being evaluateChain(condition): the guarded branch first,
\* under the guards of the condition; then the other branch, under the stack as it was.
VisitIfStatementOrExpr(g, condition, thenNode, elseNode, w) ==
    LET guardsApplyToElse == IF g.t = "GuardExpression" THEN g.isNegated
                             ELSE g.isNegated # (g.operator = "||")
        first == IF guardsApplyToElse THEN elseNode ELSE thenNode
        second == IF guardsApplyToElse THEN thenNode ELSE elseNode
    IN  VisitEach(<<second>>, 1,
                  TruncateStack(VisitEach(<<first>>, 1, VisitGuards(g, condition, w)), Len(w.stack)))

\* _visitPropertyAccess: nothing for a property that does not resolve. No member of
\* the types of the model is in the compatibility data: _checkPropertyOrEvent finds no
\* issue, and the object is visited.
VisitPropertyAccess(node, w) ==
    IF GetPropertyOfType(node.expression, node.name) = NullSymbol THEN w
    ELSE VisitEach(<<node.expression>>, 1, w)

\* _visit, and _visitIfDefinedAndNotNull for the undefined node; each _visit that
\* returns is recorded with the guard stack it began and ended with.
Visit(node, w) ==
    LET Returned(out) ==
            [out EXCEPT !.visits = Append(@, [kind |-> node.kind, before |-> w.stack,
                                              after |-> out.stack])]
    IN  IF node.kind = "undefined" THEN w
        ELSE Returned(
            CASE node.kind = "PropertyAccessExpression" -> VisitPropertyAccess(node, w)
              [] node.kind = "CallExpression" -> VisitCallOrNew(node, w)
              [] node.kind = "BinaryExpression" -> VisitBinaryExpression(node, w)
              [] node.kind = "IfStatement" ->
                     VisitIfStatementOrExpr(EvaluateChain(node.expression), node.expression,
                                            node.thenStatement, node.elseStatement, w)
              [] node.kind = "ConditionalExpression" ->
                     VisitIfStatementOrExpr(EvaluateChain(node.condition), node.condition,
                                            node.whenTrue, node.whenFalse, w)
              [] OTHER -> VisitEach(Children(node), 1, w))

\* this._visit on each node in turn, from node i
VisitEach(nodes, i, w) ==
    IF i > Len(nodes) THEN w ELSE VisitEach(nodes, i + 1, Visit(nodes[i], w))

(***************************************************************************)
(* Walker: the programs and the compatibility data of the model            *)
(***************************************************************************)
WalkerRawStatements ==
    {RawStatement(RawBool(TRUE), RawUndefined, "", "", FALSE, FALSE, <<>>),
     RawStatement(RawBool(TRUE), RawUndefined, "", "", FALSE, FALSE, <<"n">>),
     RawStatement(RawBool(TRUE), RawUndefined, "", "", FALSE, TRUE, <<>>),
     RawStatement(RawBool(FALSE), RawUndefined, "", "", FALSE, FALSE, <<>>)}

\* api: the globals A, with a record for the clients a and b, and B.
GlobalsSource(c) ==
    <<[name |-> <<"A">>, compat |-> FeatureCompat("a" :> c[1] @@ "b" :> c[2]), members |-> <<>>],
      [name |-> <<"B">>, compat |-> FeatureCompat("a" :> c[3]), members |-> <<>>]>>

\* The condition of a branch: a guard, a negated guard, a chain of two guards.
Conditions ==
    GuardLeaves \cup {PrefixUnaryExpression("!", l) : l \in GuardLeaves}
                \cup Negations(Chains(GuardLeaves))

\* An operand of a chain: a guard of A or of B, a member of the result of a call at
\* position pos (plain, negated, tested with "in"), a call at pos (plain, negated).
ChainItems(pos) ==
    {TypeofComparison(<<Identifier("A", 0), "undefined", "!==", FALSE, 1, 0, 0, 0>>),
     TypeofComparison(<<Identifier("B", 0), "undefined", "===", FALSE, 1, 0, 0, 0>>),
     PropertyAccessExpression(CallExpression(Identifier("B", pos), <<>>), "m"),
     PrefixUnaryExpression("!", PropertyAccessExpression(CallExpression(Identifier("A", pos), <<>>), "m")),
     BinaryExpression(StringLiteral("m"), "in", CallExpression(Identifier("A", pos), <<>>)),
     CallExpression(Identifier("A", pos), <<>>),
     PrefixUnaryExpression("!", CallExpression(Identifier("B", pos), <<>>))}

\* The chains x && y && z and x || y || z, the uses of the operands at 11, 12 and 13.
ChainConditions ==
    {BinaryExpression(BinaryExpression(c[1], c[4], c[2]), c[4], c[3]) :
        c \in ChainItems(11) \X ChainItems(12) \X ChainItems(13) \X {"&&", "||"}}

\* The statement A(); with the callee at position pos, then B(); at the next one.
Uses(pos) ==
    Block(<<Unary("ExpressionStatement", CallExpression(Identifier("A", pos), <<>>)),
            Unary("ExpressionStatement", CallExpression(Identifier("B", pos + 1), <<>>))>>)

\* A source file that branches on cond. Uses at 1 and 2 are in the then branch,
\* uses at 3 and 4 in the else branch.
Program(shape, cond) ==
    CASE shape = "if" -> Block(<<IfStatement(cond, Uses(1), NoNode)>>)
      [] shape = "if-else" -> Block(<<IfStatement(cond, Uses(1), Uses(3))>>)
      [] shape = "conditional" ->
             Block(<<Unary("ExpressionStatement",
                           ConditionalExpression(cond, CallExpression(Identifier("A", 1), <<>>),
                                                 CallExpression(Identifier("A", 3), <<>>)))>>)
      [] shape = "nested" ->
             Block(<<IfStatement(BinaryExpression(Unary("TypeOfExpression", Identifier("B", 0)),
                                                  "!==", StringLiteral("undefined")),
                                 Block(<<IfStatement(cond, Uses(1), Uses(3))>>), NoNode)>>)
      [] shape = "and" ->
             Block(<<Unary("ExpressionStatement",
                           BinaryExpression(cond, "&&", CallExpression(Identifier("A", 1), <<>>)))>>)
      [] shape = "statement" -> Block(<<Unary("ExpressionStatement", cond)>>)

\* new Walker(sourceFile, program, compatChecker, whitelist)
InitWalker ==
    /\ \/ \E shape \in {"if", "if-else", "conditional", "nested", "and"}, cond \in Conditions :
              sourceFile = Program(shape, cond)
       \/ \E shape \in {"statement", "if-else", "nested"}, cond \in ChainConditions :
              sourceFile = Program(shape, cond)
    /\ \E c \in WalkerRawStatements \X {r \in WalkerRawStatements : r.notes = <<>>}
                                      \X {r \in WalkerRawStatements : r.notes # <<>>} :
           m_compatChecker =
               CompatDataGetIssues(<<>>, GlobalsSource(c),
                                   <<ClientInfo("a", minVal, maxVal), ClientInfo("b", minVal, maxVal)>>, {})
    /\ m_whitelist \in {{}, {<<"A">>}}
    /\ m_guardStack = <<>>
    /\ m_issuesFound = <<>>
    /\ guardStackAtUse = EmptyMap
    /\ visitTrace = <<>>
    /\ walkPc = "constructed"
    /\ Idle({"compat", "guard", "rule", "version", "issuelist", "targets"})

\* Walker.walk()
Walk ==
    /\ walkPc = "constructed"
    /\ \E w \in {VisitEach(Children(sourceFile), 1,
                            [stack |-> <<>>, found |-> <<>>, atUse |-> EmptyMap, visits |-> <<>>])} :
           /\ m_guardStack' = w.stack
           /\ m_issuesFound' = w.found
           /\ guardStackAtUse' = w.atUse
           /\ visitTrace' = w.visits
    /\ walkPc' = "walked"
    /\ UNCHANGED <<sourceFile, m_compatChecker, m_whitelist, compatVars, guardVars, ruleVars,
                    versionVars, issueListVars, targetsVars>>

SpecWalker == InitWalker /\ [][Walk]_vars

(***************************************************************************)
(* Guards and branches                                                     *)
(***************************************************************************)
\* The first statement of the source file, and whether it is an if around an if.
Outer == sourceFile.statements[1]

IsNested == Outer.kind = "IfStatement" /\ Outer.thenStatement.statements[1].kind = "IfStatement"

\* The if statement or conditional expression whose branches hold the uses.
Branching ==
    IF IsNested THEN Outer.thenStatement.statements[1]
    ELSE IF Outer.kind = "ExpressionStatement" THEN Outer.expression
    ELSE Outer

IsBranching == Branching.kind \in {"IfStatement", "ConditionalExpression"}

BranchCondition ==
    IF Branching.kind = "IfStatement" THEN Branching.expression ELSE Branching.condition

\* The guard stack before the branching is analysed.
StackBefore == IF IsNested THEN <<GetSymbolAtLocation(Identifier("B", 0))>> ELSE <<>>

\* The identities an evaluated condition resolves, in order.
IdentitiesOf(g) ==
    LET items == IF g.t = "GuardExpression" THEN <<g>> ELSE g.expressions
        some == SelectSeq(items, LAMBDA x : x.guardedSymbol # NullSymbol)
    IN  [i \in 1..Len(some) |-> some[i].guardedSymbol]

\* isNegated XOR (operator is OR), a single guard being an AND chain of one item
GuardsApplyToElse(g) ==
    IF g.t = "GuardExpression" THEN g.isNegated ELSE g.isNegated # (g.operator = "||")

\* The issues found at a position, in order.
FoundAt(pos) ==
    LET at == SelectSeq(m_issuesFound, LAMBDA x : x.pos = pos)
    IN  [i \in 1..Len(at) |-> at[i].issue]

\* The lookup result for a global.
Lookup(symbol) == ClientCheckGlobal(m_compatChecker, symbol.name, 1, <<>>)

\* C3: after the walk of an if statement or conditional expression, the use in the
\* then branch was checked with the stack before the branching plus the identities
\* of the condition when guardsApplyToElse is false, and with the stack before the
\* branching alone when it is true; the use in the else branch the other way round;
\* the stack is empty again at the end. A use of A whose lookup result holds only
\* NOT_SUPPORTED issues is reported exactly where A is not on the stack.
C3_GuardsOnOneBranch ==
    (walkPc = "walked" /\ IsBranching) =>
        LET g == EvaluateChain(BranchCondition)
            guarded == StackBefore \o IdentitiesOf(g)
        IN  /\ guardStackAtUse[1].stack = IF GuardsApplyToElse(g) THEN StackBefore ELSE guarded
            /\ 3 \in DOMAIN guardStackAtUse =>
                   guardStackAtUse[3].stack = IF GuardsApplyToElse(g) THEN guarded ELSE StackBefore
            /\ m_guardStack = <<>>
            /\ \A pos \in DOMAIN guardStackAtUse \cap {1, 3} :
                   LET use == guardStackAtUse[pos]
                   IN  (/\ Lookup(use.symbol) # <<>>
                        /\ \A i \in 1..Len(Lookup(use.symbol)) : Lookup(use.symbol)[i].kind = NOT_SUPPORTED
                        /\ use.symbol.name \notin m_whitelist)
                       => (FoundAt(pos) = <<>>) = (use.symbol \in Range(use.stack))

\* A NOT_SUPPORTED issue for A is suppressed in the then branch of
\* if (typeof(A) !== 'undefined') and reported for the same use in the else branch.
C3_Witness ==
    /\ walkPc = "walked"
    /\ IsBranching
    /\ ~IsNested
    /\ BranchCondition \in GuardLeaves
    /\ 3 \in DOMAIN guardStackAtUse
    /\ guardStackAtUse[1].stack = <<GetSymbolAtLocation(Identifier("A", 0))>>
    /\ guardStackAtUse[3].stack = <<>>
    /\ FoundAt(1) = <<>>
    /\ Len(FoundAt(3)) = 2
    /\ \A i \in 1..2 : FoundAt(3)[i].kind = NOT_SUPPORTED

\* C4: at every use, every IS_PARTIAL_IMPL and NOTE issue of the lookup result is
\* reported, whatever the guard stack holds.
C4_NotesNeverWithheld ==
    walkPc = "walked" =>
        \A pos \in DOMAIN guardStackAtUse :
            LET use == guardStackAtUse[pos]
                issues == Lookup(use.symbol)
            IN  use.symbol.name \notin m_whitelist =>
                    \A i \in 1..Len(issues) :
                        issues[i].kind \in {IS_PARTIAL_IMPL, NOTE} => issues[i] \in Range(FoundAt(pos))

(***************************************************************************)
(* The operands of a chain, in order                                       *)
(***************************************************************************)
\* The condition of the branching, or the expression of the expression statement.
ChainOfProgram == IF IsBranching THEN BranchCondition ELSE Outer.expression

RECURSIVE UsesIn(_)
\* The positions of the calls of a global inside an expression.
UsesIn(node) ==
    IF node.kind = "CallExpression" THEN {node.expression.pos}
    ELSE UNION {UsesIn(Children(node)[i]) : i \in 1..Len(Children(node))}

\* C18: the guards of a chain are processed left to right: each use inside the resolve
\* target of a guard, or inside the operand of an item without identity, is analysed
\* with the stack before the chain followed by the identities of the earlier items of
\* the chain, in order, and nothing else: the identity of the item itself is not yet
\* pushed.
C18_ChainLeftToRight ==
    walkPc = "walked" =>
        LET g == EvaluateChain(ChainOfProgram)
            EarlierAt(items, leaves) ==
                \A i \in 1..Len(leaves) : \A pos \in UsesIn(leaves[i]) :
                    /\ pos \in DOMAIN guardStackAtUse
                    /\ guardStackAtUse[pos].stack
                           = StackBefore \o IdentitiesOf([g EXCEPT !.expressions = SubSeq(items, 1, i - 1)])
        IN  g.t = "GuardExprChain" =>
                EarlierAt(g.expressions, Flatten(StripNots(ChainOfProgram), g.operator))

\* typeof(A) !== "undefined" && B().m && A(): the call of B in the resolve target of
\* the second guard is analysed under A alone and reported; the call of A is analysed
\* under A and the member, and its issues, which guards can suppress, are withheld.
C18_Witness ==
    /\ walkPc = "walked"
    /\ sourceFile = Program("statement",
           BinaryExpression(
               BinaryExpression(TypeofComparison(<<Identifier("A", 0), "undefined", "!==", FALSE, 1, 0, 0, 0>>),
                                "&&",
                                PropertyAccessExpression(CallExpression(Identifier("B", 12), <<>>), "m")),
               "&&", CallExpression(Identifier("A", 13), <<>>)))
    /\ guardStackAtUse[12].stack = <<GetSymbolAtLocation(Identifier("A", 0))>>
    /\ guardStackAtUse[13].stack
           = <<GetSymbolAtLocation(Identifier("A", 0)),
               GetPropertyOfType(CallExpression(Identifier("B", 12), <<>>), "m")>>
    /\ m_whitelist = {}
    /\ FoundAt(12) # <<>>
    /\ CanIssuesBeSuppressedByGuards(Lookup(guardStackAtUse[13].symbol))
    /\ FoundAt(13) = <<>>

(***************************************************************************)
(* The guard stack across visits                                           *)
(***************************************************************************)
\* C19: the guard stack is empty when the walk starts, and every visit that returns,
\* of an if statement, a conditional expression, a binary expression or any other
\* node, nested or not, leaves the stack with exactly the contents it began with; the
\* stack is empty again when the walk ends.
C19_StackRestored ==
    /\ walkPc = "constructed" => m_guardStack = <<>>
    /\ walkPc = "walked" =>
           /\ m_guardStack = <<>>
           /\ visitTrace # <<>> /\ visitTrace[Len(visitTrace)].before = <<>>
           /\ \A i \in 1..Len(visitTrace) : visitTrace[i].after = visitTrace[i].before

\* An if statement inside a guarded branch, its condition a chain: a use inside the
\* chain was analysed under three identities, and the visits of the inner if statement
\* and of its condition's operands began and ended with the stack of the outer guard.
C19_Witness ==
    /\ walkPc = "walked"
    /\ IsNested
    /\ \E pos \in DOMAIN guardStackAtUse : Len(guardStackAtUse[pos].stack) >= 3
    /\ \E i \in 1..Len(visitTrace) :
           /\ visitTrace[i].kind = "IfStatement"
           /\ visitTrace[i].before = StackBefore /\ visitTrace[i].after = StackBefore
    /\ \E i \in 1..Len(visitTrace) :
           /\ visitTrace[i].kind = "BinaryExpression"
           /\ Len(visitTrace[i].before) >= 2 /\ visitTrace[i].after = visitTrace[i].before
    /\ m_guardStack = <<>>

(***************************************************************************)
(* Lookup results are reported or withheld as a whole                      *)
(***************************************************************************)
\* Some issue of the list is of a kind that a guard can suppress.
HoldsSuppressible(issues) ==
    Range(Kinds(issues)) \cap {NOT_SUPPORTED, NEEDS_PREFIX, NEEDS_ALT_NAME, NEEDS_FLAG} # {}

\* Some entry of the stack is the declaration of the symbol.
OnStack(symbol, stack) ==
    \E i \in 1..Len(stack) : stack[i].valueDeclaration = symbol.valueDeclaration

EntitiesSource(c) ==
    <<[name |-> <<"A">>, compat |-> FeatureCompat("a" :> c[1] @@ "b" :> c[2]), members |-> <<>>],
      [name |-> <<"D">>, compat |-> FeatureCompat("a" :> c[3]), members |-> <<>>]>>

\* Guards of C, of D, of A and of the member A of w, positive and negative.
EntityConditions ==
    LET guards == {TypeofComparison(<<Identifier(n, 0), "undefined", "!==", FALSE, 1, 0, 0, 0>>) :
                      n \in {"A", "C", "D"}}
                  \cup {PropertyAccessExpression(Identifier("w", 0), "A")}
    IN  guards \cup {PrefixUnaryExpression("!", Wrap(g, 1)) : g \in guards}

\* The statement D(); with the callee at position pos, then A(); at the next one.
EntityUses(pos) ==
    Block(<<Unary("ExpressionStatement", CallExpression(Identifier("D", pos), <<>>)),
            Unary("ExpressionStatement", CallExpression(Identifier("A", pos + 1), <<>>))>>)

\* if (cond) { D(); A(); } else { D(); A(); }, and cond && D()
EntityProgram(shape, cond) ==
    IF shape = "if-else" THEN Block(<<IfStatement(cond, EntityUses(1), EntityUses(3))>>)
    ELSE Block(<<Unary("ExpressionStatement",
                       BinaryExpression(cond, "&&", CallExpression(Identifier("D", 1), <<>>)))>>)

\* new Walker(sourceFile, program, compatChecker, whitelist)
InitEntities ==
    /\ \E shape \in {"if-else", "and"}, cond \in EntityConditions :
           sourceFile = EntityProgram(shape, cond)
    /\ \E c \in WalkerRawStatements \X {r \in WalkerRawStatements : r.notes = <<>>}
                                      \X {r \in WalkerRawStatements : r.notes # <<>>} :
           m_compatChecker =
               CompatDataGetIssues(<<>>, EntitiesSource(c),
                                   <<ClientInfo("a", minVal, maxVal), ClientInfo("b", minVal, maxVal)>>, {})
    /\ m_whitelist \in {{}, {<<"A">>}}
    /\ m_guardStack = <<>>
    /\ m_issuesFound = <<>>
    /\ guardStackAtUse = EmptyMap
    /\ visitTrace = <<>>
    /\ walkPc = "constructed"
    /\ Idle({"compat", "guard", "rule", "version", "issuelist", "targets"})

SpecEntities == InitEntities /\ [][Walk]_vars

\* C21: the issues of a use are withheld only if some entry of the guard stack is the
\* symbol that is used: the same declared entity, not a symbol of the same name, and not
\* another symbol that also has no value declaration.
C21_SameEntityOnly ==
    walkPc = "walked" =>
        \A pos \in DOMAIN guardStackAtUse :
            LET use == guardStackAtUse[pos]
            IN  (/\ use.symbol.lib
                 /\ use.symbol.name \notin m_whitelist
                 /\ Lookup(use.symbol) # <<>>
                 /\ FoundAt(pos) = <<>>)
                    => use.symbol \in Range(use.stack)

(***************************************************************************)
(* The rule: _compatData, parseTargets and the checker cache               *)
(***************************************************************************)
\* _compatData.m_browsers: the releases of each client
Browsers == [c \in ClientNames |-> IF c = "a" THEN {<<"1">>, <<"0", ".", "1">>} ELSE {<<"1">>}]

\* CompatData.getFirstVersion, _createClientMinVersionMap
GetFirstVersion(clientName) ==
    IF clientName \notin DOMAIN Browsers THEN Throw("RangeError")
    ELSE LET versions == {VersionFromString(x).val : x \in Browsers[clientName]}
         IN  Ok(CHOOSE v \in versions : \A x \in versions : VersionCompare(v, x) <= 0)

\* [start, end] for a start that may have thrown
StartToEnd(start, end) == IF start.ok THEN Ok([lo |-> start.val, hi |-> end]) ELSE start

\* The parse that starts every "<=x" target at the first release of the client.
ParseTargetVersionStringFromFirstRelease(targetName, targetVersion) ==
    LET UpTo(range, first) ==
            IF ~range.ok THEN range
            ELSE IF ~first.ok THEN first
            ELSE Ok([lo |-> first.val, hi |-> range.val.hi])
    IN  IF targetVersion = <<"*">> THEN StartToEnd(GetFirstVersion(targetName), maxVal)
        ELSE IF StartsWith(targetVersion, <<"<", "=">>)
        THEN UpTo(RangeFromString(targetVersion), GetFirstVersion(targetName))
        ELSE IF StartsWith(targetVersion, <<">", "=">>)
        THEN StartToEnd(VersionFromString(Substring(targetVersion, 2, Len(targetVersion))), maxVal)
        ELSE IF IndexOf(targetVersion, "-") # -1 THEN RangeFromString(targetVersion)
        ELSE StartToEnd(VersionFromString(targetVersion), maxVal)

\* _parseTargetVersionString
ParseTargetVersionString(targetName, targetVersion) ==
    LET UpTo(range, first) ==
            IF ~range.ok THEN range
            ELSE IF ~first.ok THEN first
            ELSE Ok([lo |-> VersionMin(first.val, range.val.hi), hi |-> range.val.hi])
    IN  IF targetVersion = <<"*">> THEN StartToEnd(GetFirstVersion(targetName), maxVal)
        ELSE IF StartsWith(targetVersion, <<"<", "=">>)
        THEN UpTo(RangeFromString(targetVersion), GetFirstVersion(targetName))
        ELSE IF StartsWith(targetVersion, <<">", "=">>)
        THEN StartToEnd(VersionFromString(Substring(targetVersion, 2, Len(targetVersion))), maxVal)
        ELSE IF IndexOf(targetVersion, "-") # -1 THEN RangeFromString(targetVersion)
        ELSE StartToEnd(VersionFromString(targetVersion), maxVal)

\* _parseTargetVersion
ParseTargetVersion(targetName, targetVersion) ==
    IF targetVersion.t = "number" THEN StartToEnd(VersionCreate(targetVersion.num, Num(0)), maxVal)
    ELSE IF targetVersion.t # "string" THEN Throw("TypeError")
    ELSE ParseTargetVersionString(targetName, targetVersion.s)

\* parseTargets: clientInfos.push(new ClientInfo(name, getDisplayName(name), start, end))
PushClientInfo(infos, name, range) ==
    IF ~range.ok THEN range
    ELSE IF name \notin DOMAIN Browsers THEN Throw("RangeError")
    ELSE Ok(Append(infos, ClientInfo(name, range.val.lo, range.val.hi)))

\* The property names an options object of the model may hold, in insertion order.
TargetNames == <<"a", "b", "zzz">>

RECURSIVE ParseTargets(_, _, _)
\* parseTargets for a targets object: the for-in loop from name i, clientInfos so far
ParseTargets(targetsArg, i, infos) ==
    IF ~infos.ok \/ i > Len(TargetNames) THEN infos
    ELSE IF TargetNames[i] \notin DOMAIN targetsArg
    THEN ParseTargets(targetsArg, i + 1, infos)
    ELSE ParseTargets(targetsArg, i + 1,
             PushClientInfo(infos.val, TargetNames[i],
                            ParseTargetVersion(TargetNames[i], targetsArg[TargetNames[i]])))

\* targets[name]
TargetOf(targets, name) == IF name \in DOMAIN targets THEN targets[name] ELSE RawUndefined

\* Boolean(x)
ToBoolean(x) ==
    CASE x.t = "boolean" -> x.b
      [] x.t = "string" -> x.s # <<>>
      [] x.t = "number" -> ~x.num.nan /\ (x.num.n # 0 \/ x.num.f # 0)
      [] OTHER -> FALSE

\* The flags _createOrGetCachedCompatChecker computes from the options.
FlagsOfOptions(options) ==
    (IF ~ToBoolean(options.showNotes) THEN {IGNORE_NOTES} ELSE {})
        \cup (IF ~ToBoolean(options.showPartialImplementations) THEN {IGNORE_PARTIAL_IMPL} ELSE {})

\* _canUseCachedCompatChecker
CanUseCachedCompatChecker(targets, flags) ==
    /\ _cachedFlags = flags
    /\ \A name \in DOMAIN Browsers :
           \* targets[name] === _cachedTargets[name], NaN being unequal to itself
           /\ TargetOf(targets, name) = TargetOf(_cachedTargets, name)
           /\ ~(TargetOf(targets, name).t = "number" /\ TargetOf(targets, name).num.nan)

\* javascript.builtins of _compatData: the global Foo, added in a 1.0, with a note
RuleBuiltins ==
    FooSource(PreprocessSupportEntry(SingleEntry(
        RawStatement(RawStr(VersionString(MkVersion(1, 0))), RawUndefined, "", "", FALSE, FALSE, <<"n">>))))

\* new ClientCompatChecker(_compatData, clientInfos, flags), with the targets and the
\* flags it was built for
NewClientCompatChecker(targets, infos, flags) ==
    [isNull |-> FALSE, targets |-> targets, flags |-> flags,
     m_clientIssueLists |-> CompatDataGetIssues(RuleBuiltins, <<>>, infos, flags)]

\* Values of a target: versions, ranges, and values parseTargets does not accept.
GoodTargetValues ==
    {RawStr(<<"1">>), RawNum(Num(1)), RawNum(NumFrac(1, 5)), RawStr(<<"*">>),
     RawStr(<<"<", "=", "1">>), RawStr(<<">", "=", "0", ".", "1">>), RawStr(<<"0", "-", "1">>)}

BadTargetValues ==
    {RawStr(<<"1", "-", "0">>), RawStr(<<"f", "o", "o">>), RawBool(TRUE), RawNum(Num(-1))}

\* The rule's options: options.targets || {}, showNotes, showPartialImplementations
\* (undefined for a missing property).
RuleOptions ==
    {[targets |-> t, showNotes |-> c[1], showPartialImplementations |-> c[2]] :
        t \in {EmptyMap, [D \in {"a", "b"} |-> RawStr(<<"1">>)], [D \in {"zzz"} |-> RawStr(<<"1">>)]}
              \cup {[D \in {"a"} |-> v] : v \in GoodTargetValues \cup BadTargetValues}
              \cup {[D \in {"a", "zzz"} |-> IF D = "a" THEN v ELSE RawStr(<<"1">>)] :
                        v \in {RawStr(<<"1">>), RawStr(<<"*">>), RawBool(TRUE)}},
        c \in {RawUndefined, RawBool(TRUE), RawStr(<<"y", "e", "s">>)}
              \X {RawUndefined, RawBool(TRUE)}}

\* The initialisation of a rule with some options:
\* _createOrGetCachedCompatChecker(options)
CreateOrGetCachedCompatChecker ==
    \E options \in RuleOptions :
        LET flags == FlagsOfOptions(options)
            parsed == ParseTargets(options.targets, 1, Ok(<<>>))
        IN  /\ IF CanUseCachedCompatChecker(options.targets, flags)
               THEN /\ lastInit' = [outcome |-> "returned", options |-> options,
                                    checker |-> _cachedCompatChecker]
                    /\ UNCHANGED <<_cachedTargets, _cachedFlags, _cachedCompatChecker>>
               ELSE IF ~parsed.ok
               THEN /\ lastInit' = [outcome |-> "threw", options |-> options,
                                    checker |-> [isNull |-> TRUE]]
                    /\ UNCHANGED <<_cachedTargets, _cachedFlags, _cachedCompatChecker>>
               ELSE /\ _cachedTargets' = options.targets
                    /\ _cachedFlags' = flags
                    /\ _cachedCompatChecker' =
                           NewClientCompatChecker(options.targets, parsed.val, flags)
                    /\ lastInit' = [outcome |-> "returned", options |-> options,
                                    checker |-> _cachedCompatChecker']
            /\ UNCHANGED <<compatVars, guardVars, walkerVars, versionVars, issueListVars, targetsVars>>

\* The module is loaded with an empty cache; then rules are initialised.
SpecRule == Idle({"compat", "guard", "walker", "rule", "version", "issuelist", "targets"}) /\ [][CreateOrGetCachedCompatChecker]_vars

\* C9: the checker a rule initialisation returns is not null, and was built with the
\* flags of the request and with the request's value for every supported client name.
C9_CheckerNeverNullNorStale ==
    lastInit.outcome = "returned" =>
        /\ ~lastInit.checker.isNull
        /\ lastInit.checker.flags = FlagsOfOptions(lastInit.options)
        /\ \A name \in ClientNames :
               TargetOf(lastInit.checker.targets, name) = TargetOf(lastInit.options.targets, name)

\* A configuration with an unknown client name, a value that is not a version or an
\* ordered range, or a flag that is not a boolean.
Malformed(options) ==
    \/ \E name \in DOMAIN options.targets :
           name \notin ClientNames \/ options.targets[name] \in BadTargetValues
    \/ options.showNotes.t \notin {"boolean", "undefined"}
    \/ options.showPartialImplementations.t \notin {"boolean", "undefined"}

\* C10: the initialisation of a rule with a malformed configuration throws, whatever
\* the cache holds.
C10_MalformedRejected ==
    (lastInit.outcome # "none" /\ Malformed(lastInit.options)) => lastInit.outcome = "threw"

(***************************************************************************)
(* Version.ts: range strings                                               *)
(***************************************************************************)
RECURSIVE NumberToString(_)
\* Number.prototype.toString of a non-negative integer
NumberToString(n) ==
    IF n < 10 THEN <<DigitChar(n)>> ELSE NumberToString(n \div 10) \o <<DigitChar(n % 10)>>

\* Version.toString
VersionToString(v) == NumberToString(v.major) \o <<".">> \o NumberToString(v.minor)

\* _versionMajorRangeToString
VersionMajorRangeToString(startMajor, endMajor) ==
    IF startMajor = endMajor THEN NumberToString(startMajor)
    ELSE IF startMajor = 0
    THEN (IF endMajor = _VERSION_MAX THEN <<"*">> ELSE <<"<", "=">> \o NumberToString(endMajor))
    ELSE IF endMajor = _VERSION_MAX THEN <<">", "=">> \o NumberToString(startMajor)
    ELSE NumberToString(startMajor) \o <<"-">> \o NumberToString(endMajor)

\* The range string with whole majors chosen by the minor of the end alone.
RangeToStringByEndMinor(start, end) ==
    IF VersionCompare(start, end) = 0 THEN VersionToString(start)
    ELSE IF end.minor = _VERSION_MAX
    THEN VersionMajorRangeToString(start.major, end.major)
    ELSE IF VersionCompare(start, minVal) <= 0 THEN <<"<", "=">> \o VersionToString(end)
    ELSE IF VersionCompare(end, maxVal) >= 0 THEN <<">", "=">> \o VersionToString(start)
    ELSE VersionToString(start) \o <<"-">> \o VersionToString(end)

\* Version.rangeToString
RangeToString(start, end) ==
    IF VersionCompare(start, end) = 0 THEN VersionToString(start)
    ELSE IF start.minor = 0 /\ end.minor = _VERSION_MAX
    THEN VersionMajorRangeToString(start.major, end.major)
    ELSE IF VersionCompare(start, minVal) <= 0 THEN <<"<", "=">> \o VersionToString(end)
    ELSE IF VersionCompare(end, maxVal) >= 0 THEN <<">", "=">> \o VersionToString(start)
    ELSE VersionToString(start) \o <<"-">> \o VersionToString(end)

(***************************************************************************)
(* Version: the arguments and the calls of the model                       *)
(***************************************************************************)
\* Major and minor numbers: the small ones, and the ones at the upper bound.
VersionNumbers == (0..MaxMajor) \cup {_VERSION_MAX - 1, _VERSION_MAX}

\* The versions Version.create returns for these numbers.
CreatedVersions == {VersionCreate(Num(a), Num(b)).val : a, b \in VersionNumbers}

\* Number arguments: NaN, and +/-(n + f/10) around the bounds.
NumberArgs ==
    {NaN} \cup {[nan |-> FALSE, neg |-> s, n |-> n, f |-> f] :
                    s \in BOOLEAN, n \in {0, 1, _VERSION_MAX, _VERSION_MAX + 1}, f \in {0, 5}}

\* The text of one number of a version string, well formed or not.
NumberTexts ==
    {<<>>, <<"0">>, <<"1">>, <<"x">>, <<"1", "x">>, <<" ", "1">>,
     NumberToString(_VERSION_MAX), NumberToString(_VERSION_MAX + 1)}

VersionTexts == NumberTexts \cup {a \o <<".">> \o b : a, b \in NumberTexts}

\* Range strings: "*", v, a-b, <=v, >=v
RangeTexts ==
    {<<"*">>} \cup VersionTexts
        \cup {a \o <<"-">> \o b : a, b \in VersionTexts}
        \cup {<<"<", "=">> \o v : v \in VersionTexts}
        \cup {<<">", "=">> \o v : v \in VersionTexts}

InitVersion ==
    /\ verArgs \in [t : {"versions"}, a : CreatedVersions \cup {infinite},
                    b : CreatedVersions \cup {infinite}, c : CreatedVersions \cup {infinite}]
                   \cup [t : {"numbers"}, major : NumberArgs, minor : NumberArgs]
                   \cup [t : {"string"}, str : RangeTexts]
                   \cup {r \in [t : {"range"}, start : CreatedVersions, end : CreatedVersions] :
                             VersionCompare(r.start, r.end) <= 0}
    /\ verCalls = <<>>
    /\ Idle({"compat", "guard", "walker", "rule", "issuelist", "targets"})

\* The calls of Version.compare of a run, in order: the arguments of each.
ComparePairs == <<<<"a", "b">>, <<"b", "a">>, <<"b", "c">>, <<"a", "c">>>>

\* Version.compare(v1, v2)
VersionCompareCall ==
    /\ verArgs.t = "versions"
    /\ Len(verCalls) < Len(ComparePairs)
    /\ \E p \in {ComparePairs[Len(verCalls) + 1]} :
           verCalls' = Append(verCalls,
                              [call |-> "compare", v1 |-> verArgs[p[1]], v2 |-> verArgs[p[2]],
                               result |-> VersionCompare(verArgs[p[1]], verArgs[p[2]])])
    /\ UNCHANGED <<verArgs, compatVars, guardVars, walkerVars, ruleVars, issueListVars, targetsVars>>

\* Version.min(a, b)
VersionMinCall ==
    /\ verArgs.t = "versions"
    /\ Len(verCalls) = Len(ComparePairs)
    /\ verCalls' = Append(verCalls, [call |-> "min", v1 |-> verArgs.a, v2 |-> verArgs.b,
                                     result |-> VersionMin(verArgs.a, verArgs.b)])
    /\ UNCHANGED <<verArgs, compatVars, guardVars, walkerVars, ruleVars, issueListVars, targetsVars>>

\* Version.max(a, b)
VersionMaxCall ==
    /\ verArgs.t = "versions"
    /\ Len(verCalls) = Len(ComparePairs) + 1
    /\ verCalls' = Append(verCalls, [call |-> "max", v1 |-> verArgs.a, v2 |-> verArgs.b,
                                     result |-> VersionMax(verArgs.a, verArgs.b)])
    /\ UNCHANGED <<verArgs, compatVars, guardVars, walkerVars, ruleVars, issueListVars, targetsVars>>

\* Version.create(major, minor)
VersionCreateCall ==
    /\ verArgs.t = "numbers"
    /\ verCalls = <<>>
    /\ verCalls' = <<[call |-> "create", major |-> verArgs.major, minor |-> verArgs.minor,
                      result |-> VersionCreate(verArgs.major, verArgs.minor)]>>
    /\ UNCHANGED <<verArgs, compatVars, guardVars, walkerVars, ruleVars, issueListVars, targetsVars>>

\* Version.rangeFromString(str), str an argument or the string rangeToString returned
RangeFromStringCall ==
    /\ \/ verArgs.t = "string" /\ verCalls = <<>>
       \/ verCalls # <<>> /\ verCalls[Len(verCalls)].call = "rangeToString"
    /\ \E str \in {IF verCalls = <<>> THEN verArgs.str ELSE verCalls[Len(verCalls)].result} :
           verCalls' = Append(verCalls, [call |-> "rangeFromString", str |-> str,
                                         result |-> RangeFromString(str)])
    /\ UNCHANGED <<verArgs, compatVars, guardVars, walkerVars, ruleVars, issueListVars, targetsVars>>

\* Version.rangeToString(start, end), of an argument or of the range rangeFromString returned
RangeToStringCall ==
    /\ \/ verArgs.t = "range" /\ verCalls = <<>>
       \/ Len(verCalls) = 1 /\ verCalls[1].call = "rangeFromString" /\ verCalls[1].result.ok
    /\ \E r \in {IF verCalls = <<>> THEN [lo |-> verArgs.start, hi |-> verArgs.end]
                 ELSE verCalls[1].result.val} :
           verCalls' = Append(verCalls, [call |-> "rangeToString", start |-> r.lo, end |-> r.hi,
                                         result |-> RangeToString(r.lo, r.hi)])
    /\ UNCHANGED <<verArgs, compatVars, guardVars, walkerVars, ruleVars, issueListVars, targetsVars>>

SpecVersion ==
    InitVersion /\ [][VersionCompareCall \/ VersionMinCall \/ VersionMaxCall \/ VersionCreateCall
                        \/ RangeFromStringCall \/ RangeToStringCall]_vars

(***************************************************************************)
(* The order of versions                                                   *)
(***************************************************************************)
\* v1 before v2 in the lexicographic order of (major, minor)
LexLess(v1, v2) == v1.major < v2.major \/ (v1.major = v2.major /\ v1.minor < v2.minor)

Sign(x) == IF x < 0 THEN -1 ELSE IF x > 0 THEN 1 ELSE 0

CallsOf(name) == {i \in 1..Len(verCalls) : verCalls[i].call = name}

\* C11: Version.compare orders versions lexicographically by (major, minor): it
\* returns 0 exactly for equal major and minor, compare(a, b) and compare(b, a) have
\* opposite signs, and it is transitive; infinite compares greater than maxVal and
\* than every version create() returns; min and max return the operand that compare
\* ranks lower, respectively higher.
C11_CompareIsTotalOrder ==
    /\ \A i \in CallsOf("compare") :
           LET k == verCalls[i]
           IN  /\ (k.result = 0) = (k.v1.major = k.v2.major /\ k.v1.minor = k.v2.minor)
               /\ (k.result < 0) = LexLess(k.v1, k.v2)
               /\ (k.result > 0) = LexLess(k.v2, k.v1)
               /\ (k.v1 = infinite /\ k.v2 \in CreatedVersions \cup {maxVal}) => k.result > 0
    /\ \A i, j \in CallsOf("compare") :
           (verCalls[i].v1 = verCalls[j].v2 /\ verCalls[i].v2 = verCalls[j].v1)
               => Sign(verCalls[i].result) = 0 - Sign(verCalls[j].result)
    /\ \A i, j, k \in CallsOf("compare") :
           (/\ verCalls[i].v2 = verCalls[j].v1
            /\ verCalls[k].v1 = verCalls[i].v1 /\ verCalls[k].v2 = verCalls[j].v2
            /\ verCalls[i].result <= 0 /\ verCalls[j].result <= 0)
               => /\ verCalls[k].result <= 0
                  /\ (verCalls[i].result < 0 \/ verCalls[j].result < 0) => verCalls[k].result < 0
    /\ \A i \in CallsOf("min") :
           verCalls[i].result = IF LexLess(verCalls[i].v2, verCalls[i].v1)
                                THEN verCalls[i].v2 ELSE verCalls[i].v1
    /\ \A i \in CallsOf("max") :
           verCalls[i].result = IF LexLess(verCalls[i].v1, verCalls[i].v2)
                                THEN verCalls[i].v2 ELSE verCalls[i].v1

\* Three versions in strictly increasing order, the last one infinite, have been
\* compared in both directions, and min and max were taken of two of them.
C11_Witness ==
    /\ Len(verCalls) = Len(ComparePairs) + 2
    /\ verCalls[1].result < 0 /\ verCalls[2].result > 0
    /\ verCalls[3].result < 0 /\ verCalls[4].result < 0
    /\ verCalls[1].v1.major = verCalls[1].v2.major
    /\ verCalls[3].v2 = infinite
    /\ verCalls[5].result = verArgs.a /\ verCalls[6].result = verArgs.b

(***************************************************************************)
(* Range strings: format, then parse                                       *)
(***************************************************************************)
\* The calls of rangeFromString on a string that rangeToString returned.
Reparsed == {i \in CallsOf("rangeFromString") : i > 1}

\* C12: parsing the string rangeToString(lo, hi) produces, for lo <= hi within
\* [minVal, maxVal], gives back exactly [lo, hi]; so for a valid range string s,
\* rangeFromString(rangeToString(rangeFromString(s))) equals rangeFromString(s).
C12_RangeRoundTrip ==
    /\ \A i \in Reparsed :
           verCalls[i].result = Ok([lo |-> verCalls[i - 1].start, hi |-> verCalls[i - 1].end])
    /\ (Len(verCalls) = 3 /\ verCalls[1].call = "rangeFromString")
           => verCalls[3].result = verCalls[1].result

\* A range string that is not in canonical form was parsed, formatted and parsed again.
C12_Witness ==
    /\ Len(verCalls) = 3
    /\ verCalls[1].call = "rangeFromString"
    /\ verCalls[2].result # verCalls[1].str
    /\ verCalls[3].result.ok
    /\ verCalls[3].result.val.lo # verCalls[3].result.val.hi

(***************************************************************************)
(* Failing constructions                                                   *)
(***************************************************************************)
\* A number within [0, _VERSION_MAX]
InBounds(x) ==
    /\ ~x.nan
    /\ x.neg => (x.n = 0 /\ x.f = 0)
    /\ x.n < _VERSION_MAX \/ (x.n = _VERSION_MAX /\ x.f = 0)

\* No number can be read from the text: after blanks and a sign there is no digit.
NoNumber(text) ==
    \E k \in 0..Len(text) :
        /\ \A j \in 1..k : text[j] = " "
        /\ k = Len(text)
           \/ (text[k + 1] \notin Digits \cup {" ", "+", "-"})
           \/ (text[k + 1] \in {"+", "-"} /\ (k + 1 = Len(text) \/ text[k + 2] \notin Digits))

\* The texts of the major and the minor number of a version string.
VersionParts(v) ==
    IF IndexOf(v, ".") = -1 THEN {v}
    ELSE {Substring(v, 0, IndexOf(v, ".")), Substring(v, IndexOf(v, ".") + 1, Len(v))}

\* The version strings of a range string: both ends of a-b, the one of <=v, >=v and v.
RangeEnds(str) ==
    IF str = <<"*">> THEN <<>>
    ELSE IF IndexOf(str, "-") # -1
    THEN <<Substring(str, 0, IndexOf(str, "-")), Substring(str, IndexOf(str, "-") + 1, Len(str))>>
    ELSE IF StartsWith(str, <<"<", "=">>) \/ StartsWith(str, <<">", "=">>)
    THEN <<Substring(str, 2, Len(str))>>
    ELSE <<str>>

\* The range string a-b has a lower bound above its upper bound.
Inverted(str) ==
    /\ Len(RangeEnds(str)) = 2
    /\ FromStringImpl(RangeEnds(str)[1], FALSE).ok
    /\ FromStringImpl(RangeEnds(str)[2], TRUE).ok
    /\ LexLess(FromStringImpl(RangeEnds(str)[2], TRUE).val, FromStringImpl(RangeEnds(str)[1], FALSE).val)

\* C13: Version.create fails with a RangeError for a major or minor outside
\* [0, _VERSION_MAX] and otherwise returns the numbers with their fractions dropped;
\* rangeFromString fails with a RangeError for a lower bound above the upper bound
\* and for a version part that is not a number; a failure returns no value, and a
\* range that is returned is never inverted.
C13_InvalidIsRangeError ==
    /\ \A i \in CallsOf("create") :
           verCalls[i].result =
               IF InBounds(verCalls[i].major) /\ InBounds(verCalls[i].minor)
               THEN Ok(MkVersion(verCalls[i].major.n, verCalls[i].minor.n))
               ELSE Throw("RangeError")
    /\ \A i \in CallsOf("rangeFromString") :
           /\ (\/ Inverted(verCalls[i].str)
               \/ \E e \in Range(RangeEnds(verCalls[i].str)) : \E p \in VersionParts(e) : NoNumber(p))
                  => verCalls[i].result = Throw("RangeError")
           /\ ~verCalls[i].result.ok => verCalls[i].result = Throw("RangeError")
           /\ verCalls[i].result.ok =>
                  ~LexLess(verCalls[i].result.val.hi, verCalls[i].result.val.lo)

\* rangeFromString was called on a-b with two well-formed versions, a above b.
C13_Witness ==
    /\ Len(verCalls) = 1
    /\ verCalls[1].call = "rangeFromString"
    /\ Inverted(verCalls[1].str)
    /\ ~verCalls[1].result.ok

(***************************************************************************)
(* ClientCompatIssueList: the calls of the model                           *)
(***************************************************************************)
MaxSets == 2           \* set calls made on one list

\* Two issues, told apart by their client.
IssueOne == MakeNotSupportedIssue(<<"x">>, NullName, ClientInfo("a", minVal, maxVal))
IssueTwo == MakeNotSupportedIssue(<<"x">>, NullName, ClientInfo("b", minVal, maxVal))

\* The issue lists handed to the set calls: empty, one issue, two issues.
IssueArrays == {<<>>, <<IssueOne>>, <<IssueTwo, IssueOne>>}

\* The arrays a caller hands to a lookup.
CallerArrays == {<<>>, <<IssueTwo>>}

GlobalNames == {<<"x">>, <<"y">>}
TypeNames == {<<"T">>, <<"x">>}
MemberNames == {<<"x">>, <<"y">>}

\* new ClientCompatIssueList()
InitIssueList ==
    /\ issueList = NewIssueList
    /\ issueSets = <<>>
    /\ issueLookup = [call |-> "none"]
    /\ scratch = <<>>
    /\ Idle({"compat", "guard", "walker", "rule", "version", "targets"})

\* setIssuesForGlobal(name, issues)
SetIssuesForGlobalCall ==
    /\ Len(issueSets) < MaxSets
    /\ \E name \in GlobalNames, issues \in IssueArrays :
           /\ issueList' = SetIssuesForGlobal(issueList, name, issues)
           /\ issueSets' = Append(issueSets, [key |-> <<"global", name>>, issues |-> issues])
    /\ issueLookup' = [call |-> "none"]
    /\ UNCHANGED <<scratch, compatVars, guardVars, walkerVars, ruleVars, versionVars, targetsVars>>

\* setIssuesForPropertyOrEvent(typeName, propName, isEvent, issues)
SetIssuesForPropertyOrEventCall ==
    /\ Len(issueSets) < MaxSets
    /\ \E typeName \in TypeNames, propName \in MemberNames, isEvent \in BOOLEAN,
          issues \in IssueArrays :
           /\ issueList' = SetIssuesForPropertyOrEvent(issueList, typeName, propName, isEvent, issues)
           /\ issueSets' = Append(issueSets, [key |-> <<"member", typeName, propName, isEvent>>,
                                              issues |-> issues])
    /\ issueLookup' = [call |-> "none"]
    /\ UNCHANGED <<scratch, compatVars, guardVars, walkerVars, ruleVars, versionVars, targetsVars>>

\* getIssuesForGlobal(name, issues)
GetIssuesForGlobalCall ==
    /\ \E name \in GlobalNames, issues \in CallerArrays :
           issueLookup' = [call |-> "getIssuesForGlobal", key |-> <<"global", name>>,
                           issues |-> issues,
                           after |-> GetIssuesForGlobal(issueList, name, issues)]
    /\ UNCHANGED <<issueList, issueSets, scratch, compatVars, guardVars, walkerVars, ruleVars,
                   versionVars, targetsVars>>

\* getIssuesForPropertyOrEvent(typeName, propName, isEvent, issues)
GetIssuesForPropertyOrEventCall ==
    /\ \E typeName \in TypeNames, propName \in MemberNames, isEvent \in BOOLEAN,
          issues \in CallerArrays :
           issueLookup' = [call |-> "getIssuesForPropertyOrEvent",
                           key |-> <<"member", typeName, propName, isEvent>>,
                           issues |-> issues,
                           after |-> GetIssuesForPropertyOrEvent(issueList, typeName, propName,
                                                                 isEvent, issues)]
    /\ UNCHANGED <<issueList, issueSets, scratch, compatVars, guardVars, walkerVars, ruleVars,
                   versionVars, targetsVars>>

SpecIssueList ==
    InitIssueList /\ [][SetIssuesForGlobalCall \/ SetIssuesForPropertyOrEventCall
                          \/ GetIssuesForGlobalCall \/ GetIssuesForPropertyOrEventCall]_vars

(***************************************************************************)
(* Lookups by exact key                                                    *)
(***************************************************************************)
\* The set calls for a key with a list that is not empty.
SetsOf(key) == {i \in 1..Len(issueSets) : issueSets[i].key = key /\ issueSets[i].issues # <<>>}

\* The list of the most recent of them, or no issue when there is none.
LastSetFor(key) ==
    IF SetsOf(key) = {} THEN <<>>
    ELSE issueSets[CHOOSE i \in SetsOf(key) : \A j \in SetsOf(key) : j <= i].issues

\* C14: a lookup appends to the caller's array, in stored order, exactly the issues of
\* the most recent non-empty list set for that exact key (a global name, or type,
\* member and isEvent), and nothing for a key never set with a non-empty list; what the
\* array held before stays in place.
C14_LookupReturnsLastSet ==
    issueLookup.call # "none" =>
        issueLookup.after = issueLookup.issues \o LastSetFor(issueLookup.key)

\* A member was set as a property and then, with another list, as an event of the same
\* type and name; the lookup of the property appended the first list to a non-empty array.
C14_Witness ==
    /\ Len(issueSets) = 2
    /\ issueSets[1].key[1] = "member"
    /\ issueSets[2].key = <<"member", issueSets[1].key[2], issueSets[1].key[3], TRUE>>
    /\ issueSets[1].key[4] = FALSE
    /\ issueSets[1].issues # <<>> /\ issueSets[2].issues # <<>>
    /\ issueSets[1].issues # issueSets[2].issues
    /\ issueLookup.call = "getIssuesForPropertyOrEvent"
    /\ issueLookup.key = issueSets[1].key
    /\ issueLookup.issues # <<>>
    /\ issueLookup.after = issueLookup.issues \o issueSets[1].issues

(***************************************************************************)
(* parseTargets: the calls of the model                                    *)
(***************************************************************************)
\* A prefix before a range: ">=0-1", "<=1-0", ...
MixedTexts ==
    {p \o a \o <<"-">> \o b : p \in {<<"<", "=">>, <<">", "=">>}, a, b \in {<<"0">>, <<"1">>}}

\* The value of one target: any range text, any number, a boolean, undefined.
TargetValues ==
    {RawStr(str) : str \in RangeTexts \cup MixedTexts}
        \cup {RawNum(x) : x \in NumberArgs} \cup {RawBool(TRUE), RawUndefined}

\* The argument of parseTargets: undefined, a value that is no object, or an object
\* with one target, or with the targets a and b.
TargetsArgs ==
    {[t |-> "undefined", map |-> EmptyMap], [t |-> "string", map |-> EmptyMap],
     [t |-> "object", map |-> EmptyMap]}
        \cup {[t |-> "object", map |-> [D \in {c} |-> v]] :
                  c \in {"a", "b", "zzz"}, v \in TargetValues}
        \cup {[t |-> "object", map |-> [D \in {"a", "b"} |-> IF D = "a" THEN v[1] ELSE v[2]]] :
                  v \in (GoodTargetValues \cup BadTargetValues)
                            \X (GoodTargetValues \cup BadTargetValues)}

InitTargets ==
    /\ targetsGiven \in TargetsArgs
    /\ parsedTargets = [call |-> "none"]
    /\ Idle({"compat", "guard", "walker", "rule", "version", "issuelist"})

\* parseTargets(targetsArg)
ParseTargetsCall ==
    /\ parsedTargets.call = "none"
    /\ parsedTargets' =
           [call |-> "parseTargets",
            result |-> IF targetsGiven.t = "undefined" THEN Ok(<<>>)
                       ELSE IF targetsGiven.t # "object" THEN Throw("TypeError")
                       ELSE ParseTargets(targetsGiven.map, 1, Ok(<<>>))]
    /\ UNCHANGED <<targetsGiven, compatVars, guardVars, walkerVars, ruleVars, versionVars,
                   issueListVars>>

SpecTargets == InitTargets /\ [][ParseTargetsCall]_vars

(***************************************************************************)
(* The range of a target, by the form of its value                         *)
(***************************************************************************)
\* The version a text names, and the upper bound of it: the last minor version of the
\* major version when the text names no minor version.
Named(text) == FromStringImpl(text, FALSE).val
UpperBound(text) == FromStringImpl(text, TRUE).val

\* The first release of a client: the least of its releases.
FirstRelease(name) ==
    CHOOSE v \in {Named(x) : x \in Browsers[name]} :
        \A x \in Browsers[name] : ~LexLess(Named(x), v)

\* The form of a target value.
FormOf(value) ==
    IF value.t = "number" THEN "number"
    ELSE IF value.s = <<"*">> THEN "*"
    ELSE IF StartsWith(value.s, <<"<", "=">>) THEN "<="
    ELSE IF StartsWith(value.s, <<">", "=">>) THEN ">="
    ELSE IF IndexOf(value.s, "-") # -1 THEN "a-b"
    ELSE "version"

\* The range of a target of each form, as <<min, max>>.
RangeOfForm(name, value) ==
    LET text == value.s
        rest == SubSeq(text, 3, Len(text))
        dash == IndexOf(text, "-")
        Least(v1, v2) == IF LexLess(v1, v2) THEN v1 ELSE v2
    IN  CASE FormOf(value) = "number" -> <<MkVersion(value.num.n, 0), maxVal>>
          [] FormOf(value) = "version" -> <<Named(text), maxVal>>
          [] FormOf(value) = "*" -> <<FirstRelease(name), maxVal>>
          [] FormOf(value) = "<=" -> <<Least(FirstRelease(name), UpperBound(rest)), UpperBound(rest)>>
          [] FormOf(value) = ">=" -> <<Named(rest), maxVal>>
          [] FormOf(value) = "a-b" -> <<Named(SubSeq(text, 1, dash)),
                                        UpperBound(SubSeq(text, dash + 2, Len(text)))>>

\* C15: every client target parseTargets returns has minVersion <= maxVersion and the
\* range of the form of its value: a number or a version v gives [v, MAX_VAL] (the
\* fraction of a number dropped), "*" gives [first release, MAX_VAL], "<=x" gives
\* [min(first release, upper bound of x), upper bound of x], ">=x" gives [x, MAX_VAL],
\* and "a-b" gives [a, upper bound of b].
C15_TargetsAreRanges ==
    (parsedTargets.call = "parseTargets" /\ parsedTargets.result.ok) =>
        \A i \in 1..Len(parsedTargets.result.val) :
            LET target == parsedTargets.result.val[i]
                Expected(range) ==
                    /\ target.minVersion = range[1]
                    /\ target.maxVersion = range[2]
            IN  /\ ~LexLess(target.maxVersion, target.minVersion)
                /\ target.name \in DOMAIN targetsGiven.map
                /\ Expected(RangeOfForm(target.name, targetsGiven.map[target.name]))

\* The target b: "<=0" was parsed: its upper bound 0.MAX lies before the first release
\* 1.0 of b, and the range returned is the single version 0.MAX.
C15_Witness ==
    /\ parsedTargets.call = "parseTargets"
    /\ parsedTargets.result.ok
    /\ targetsGiven.map = [D \in {"b"} |-> RawStr(<<"<", "=", "0">>)]
    /\ Len(parsedTargets.result.val) = 1
    /\ parsedTargets.result.val[1].minVersion = MkVersion(0, _VERSION_MAX)
    /\ parsedTargets.result.val[1].maxVersion = MkVersion(0, _VERSION_MAX)
    /\ LexLess(parsedTargets.result.val[1].maxVersion, FirstRelease("b"))

(***************************************************************************)
(* Normalisation of the source data, observed from the raw entry           *)
(***************************************************************************)
RawNull == [RawUndefined EXCEPT !.t = "null"]

\* The values version_added takes in the data: true, false, null, missing, "V", "<=V".
RawAddedValues ==
    {RawBool(TRUE), RawBool(FALSE), RawNull, RawUndefined}
    \cup UNION {RawVersionForms(v) : v \in DataVersions}

\* The values version_removed takes in the data: missing, null, false, "V", "<=V".
RawRemovedValues ==
    {RawUndefined, RawNull, RawBool(FALSE)}
    \cup UNION {RawVersionForms(v) : v \in DataVersions}

\* The version a value of the data is written with, if it is a string.
WrittenVersion(raw) ==
    IF raw.t # "string" THEN {}
    ELSE {v \in DataVersions : raw \in RawVersionForms(v)}

\* Single statements in every combination of the values above (added <= removed where
\* both are written versions), bare, with a prefix, or with a note.
LoadRawStatements ==
    {RawStatement(c[1], c[2], c[3][1], "", FALSE, FALSE, c[3][2]) :
        c \in {q \in RawAddedValues \X RawRemovedValues
                       \X {<<"", <<>>>>, <<"moz", <<>>>>, <<"", <<"n">>>>} :
                  \A a \in WrittenVersion(q[1]), r \in WrittenVersion(q[2]) :
                      VersionCompare(a, r) <= 0}}

\* Statements of a list: whole majors, added before removed or never removed; bare,
\* with a prefix, or with a note.
ListRawStatements ==
    {RawStatement(RawStr(VersionString(MkVersion(c[1], 0))), c[2], c[3][1], "", FALSE, FALSE, c[3][2]) :
        c \in {q \in (0..MaxMajor)
                       \X ({RawStr(VersionString(MkVersion(r, 0))) : r \in 0..MaxMajor}
                           \cup {RawUndefined})
                       \X {<<"", <<>>>>, <<"moz", <<>>>>, <<"", <<"n">>>>} :
                  q[2] = RawUndefined
                  \/ VersionCompare(MkVersion(q[1], 0), VersionFromString(q[2].s).val) < 0}}

\* new CompatData(sourceData) for a source whose Foo has a single statement or a list.
InitLoad ==
    /\ \E entry \in {SingleEntry(raw) : raw \in LoadRawStatements}
                    \cup {ArrayEntry(raws) : raws \in SeqsUpTo(ListRawStatements, MaxStmts)} :
           /\ rawSupport = entry
           /\ m_builtins = FooSource(PreprocessSupportEntry(entry))
    /\ m_api = <<>>
    /\ clientInfos = <<>>
    /\ cdFlags = {}
    /\ clientIssuesLists = <<>>
    /\ cdPc = "constructed"
    /\ Idle({"guard", "walker", "rule", "version", "issuelist", "targets"})

\* The flags that make a difference to the statements of the entry: no statement of a
\* list is a partial implementation.
LoadFlags(entry) ==
    IF entry.t = "array" THEN SUBSET {IGNORE_NOTES} ELSE AllFlags

GetIssuesLoad ==
    /\ cdPc = "constructed"
    /\ \E ci \in Targets("a"), flags \in LoadFlags(rawSupport) : GetIssues(<<ci>>, flags)

SpecLoad == InitLoad /\ [][GetIssuesLoad]_vars

\* C22: normalising a raw support statement maps version_added true to minVal, false
\* to infinite, "<=V" to minVal, "V" to V and null or a missing value to minVal; it maps
\* version_removed "<=V" to V, "V" to V and a missing value, null or false to infinite.
\* A feature whose version_added is false has the single issue NOT_SUPPORTED for every
\* target, and one whose version_added is true or null, that is never removed and has
\* no caveat, has no issue for any target.
C22_Normalised ==
    rawSupport.t = "single" =>
        LET raw == rawSupport.ss[1]
            ss == FooEntry.ss[1]
            Bare == /\ raw.prefix = "" /\ raw.alternative_name = "" /\ ~raw.flags
                    /\ ~raw.partial_implementation /\ raw.notes = <<>>
        IN  /\ raw.version_added = RawBool(TRUE) => ss.version_added = minVal
            /\ raw.version_added = RawBool(FALSE) => ss.version_added = infinite
            /\ raw.version_added.t \in {"null", "undefined"} => ss.version_added = minVal
            /\ \A v \in DataVersions :
                   /\ raw.version_added = RawStr(VersionString(v)) => ss.version_added = v
                   /\ raw.version_added = RawStr(<<Char2264>> \o VersionString(v))
                          => ss.version_added = minVal
                   /\ raw.version_removed \in RawVersionForms(v) => ss.version_removed = v
            /\ raw.version_removed.t # "string" => ss.version_removed = infinite
            /\ (cdPc = "derived" /\ raw.version_added = RawBool(FALSE))
                   => Kinds(FooIssues(1)) = <<NOT_SUPPORTED>>
            /\ (cdPc = "derived" /\ raw.version_added \in {RawBool(TRUE), RawNull}
                    /\ raw.version_removed.t # "string" /\ Bare)
                   => FooIssues(1) = <<>>

\* The data says version_added "<=1.0" and version_removed "<=1.1": the statement is
\* normalised to the window from minVal to 1.1, and a target at 0.1 has no issue.
C22_Witness ==
    /\ cdPc = "derived"
    /\ rawSupport = SingleEntry(RawStatement(RawStr(<<Char2264>> \o VersionString(MkVersion(1, 0))),
                                             RawStr(<<Char2264>> \o VersionString(MkVersion(1, 1))),
                                             "", "", FALSE, FALSE, <<>>))
    /\ FooEntry.ss[1].version_added = minVal
    /\ FooEntry.ss[1].version_removed = MkVersion(1, 1)
    /\ clientInfos[1] = ClientInfo("a", MkVersion(0, 1), MkVersion(0, 1))
    /\ FooIssues(1) = <<>>

\* The data says version_added false, with a prefix: the only issue is NOT_SUPPORTED.
C22_WitnessNever ==
    /\ cdPc = "derived"
    /\ rawSupport.t = "single"
    /\ rawSupport.ss[1].version_added = RawBool(FALSE)
    /\ rawSupport.ss[1].prefix = "moz"
    /\ FooEntry.ss[1].version_added = infinite
    /\ clientInfos[1] = ClientInfo("a", minVal, maxVal)
    /\ Kinds(FooIssues(1)) = <<NOT_SUPPORTED>>

(***************************************************************************)
(* The order of a list-valued entry                                        *)
(***************************************************************************)
\* The lists that hold the statements of arr in some order.
Orders(arr) ==
    {[i \in 1..Len(arr) |-> arr[f[i]]] : f \in Permutations(1..Len(arr))}

\* How many times each element occurs in a sequence.
Occurrences(s) == [x \in Range(s) |-> Cardinality({i \in 1..Len(s) : s[i] = x})]

\* The issues of Foo for the targets cis when the source data holds the raw entry.
FooIssuesOfSource(entry, cis, flags) ==
    LET lists == CompatDataGetIssues(FooSource(PreprocessSupportEntry(entry)), <<>>, cis, flags)
    IN  [i \in 1..Len(cis) |-> GetIssuesForGlobal(lists[i], <<"Foo">>, <<>>)]

\* C23: a list-valued entry is sorted after construction, ascending by version_added
\* and, where that is equal, descending by version_removed; and the issues of a target
\* are the same multiset whatever the order of the statements in the source data.
C23_SortedAndOrderFree ==
    rawSupport.t = "array" =>
        /\ FooEntry.t = "array"
        /\ Len(FooEntry.ss) = Len(rawSupport.ss)
        /\ \A i \in 1..Len(FooEntry.ss), j \in 1..Len(FooEntry.ss) :
               i < j =>
                   LET added == VersionCompare(FooEntry.ss[i].version_added,
                                               FooEntry.ss[j].version_added)
                   IN  \/ added < 0
                       \/ /\ added = 0
                          /\ VersionCompare(FooEntry.ss[i].version_removed,
                                            FooEntry.ss[j].version_removed) >= 0
        /\ cdPc = "derived" =>
               \A other \in Orders(rawSupport.ss) \ {rawSupport.ss} :
                   Occurrences(FooIssuesOfSource(ArrayEntry(other), clientInfos, cdFlags)[1])
                       = Occurrences(FooIssues(1))

\* The source lists a statement for [0.0, 1.0) with a note before a prefixed one that
\* was never removed: the constructor puts the second first, and the target 0.0 .. 1.0
\* has the NEEDS_PREFIX issue of the one and the NOTE issue of the other.
C23_Witness ==
    /\ cdPc = "derived"
    /\ cdFlags = {}
    /\ rawSupport = ArrayEntry(<<RawStatement(RawStr(VersionString(MkVersion(0, 0))),
                                              RawStr(VersionString(MkVersion(1, 0))),
                                              "", "", FALSE, FALSE, <<"n">>),
                                 RawStatement(RawStr(VersionString(MkVersion(0, 0))),
                                              RawUndefined, "moz", "", FALSE, FALSE, <<>>)>>)
    /\ FooEntry.ss[1].prefix = "moz"
    /\ FooEntry.ss[1].version_removed = infinite
    /\ FooEntry.ss[2].version_removed = MkVersion(1, 0)
    /\ clientInfos[1] = ClientInfo("a", minVal, MkVersion(1, 0))
    /\ Kinds(FooIssues(1)) = <<NEEDS_PREFIX, NOTE>>

(***************************************************************************)
(* Guard expressions: comparisons with undefined and null, property        *)
(* conditions, and leading NOTs                                            *)
(***************************************************************************)
MaxNots == 3           \* leading NOT operators in front of a condition

NullKeyword == [kind |-> "NullKeyword"]

UndefinedIdentifier == Identifier("undefined", 0)

\* X compared with undefined or null: c = <<X, undefined or null, operator, literal
\* first, parentheses around X, around the comparison>>.
NilComparison(c) ==
    Wrap(IF c[4] THEN BinaryExpression(c[2], c[3], Wrap(c[1], c[5]))
         ELSE BinaryExpression(Wrap(c[1], c[5]), c[3], c[2]), c[6])

\* The operands compared: identifiers that resolve and that do not, property accesses
\* that resolve and that do not, a typeof, an in expression, and the literals.
ComparedOperands ==
    {Identifier("A", 0), Identifier("u", 0),
     PropertyAccessExpression(Identifier("w", 0), "m"),
     PropertyAccessExpression(Identifier("w", 0), "z"),
     Unary("TypeOfExpression", Identifier("A", 0)),
     BinaryExpression(StringLiteral("m"), "in", Identifier("w", 0)),
     StringLiteral("s"), NullKeyword, UndefinedIdentifier}

NilComparisons ==
    {NilComparison(c) :
        c \in ComparedOperands \X {UndefinedIdentifier, NullKeyword}
              \X {"==", "===", "!=", "!=="} \X BOOLEAN \X {0, 1} \X {0, 1}}

\* Property conditions: X.prop and 'prop' in X, for members that resolve and that do
\* not, on an identifier, on a parenthesised identifier and on a call.
PropertyConditions ==
    {PropertyAccessExpression(c[1], c[2]) :
        c \in {Identifier("w", 0), Identifier("A", 0), Wrap(Identifier("w", 0), 1),
               CallExpression(Identifier("A", 0), <<>>)} \X {"m", "z"}}
    \cup {BinaryExpression(StringLiteral(c[2]), "in", c[1]) :
        c \in {Identifier("w", 0), Identifier("A", 0), Wrap(Identifier("w", 0), 1),
               CallExpression(Identifier("A", 0), <<>>)} \X {"m", "z"}}

\* Conditions that are neither: identifiers, typeof guards, a call and a chain.
OtherConditions ==
    {Identifier("A", 0), Identifier("u", 0),
     CallExpression(Identifier("A", 0), <<>>),
     TypeofComparison(<<Identifier("A", 0), "undefined", "!==", FALSE, 0, 0, 0, 0>>),
     TypeofComparison(<<Identifier("A", 0), "undefined", "===", FALSE, 0, 0, 0, 0>>),
     TypeofComparison(<<PropertyAccessExpression(Identifier("w", 0), "m"), "function", "==",
                        FALSE, 0, 0, 0, 0>>),
     BinaryExpression(Identifier("A", 0), "&&", Identifier("B", 0))}

RECURSIVE Nots(_, _, _)
\* e behind n NOT operators, each operand in parens pairs of parentheses.
Nots(e, n, parens) ==
    IF n = 0 THEN e ELSE PrefixUnaryExpression("!", Wrap(Nots(e, n - 1, parens), parens))

\* Every condition above behind 0 .. MaxNots NOTs, with and without parentheses.
FormExprs ==
    {Wrap(Nots(c[1], c[2], c[3]), c[3]) :
        c \in (NilComparisons \cup PropertyConditions \cup OtherConditions)
              \X (0..MaxNots) \X {0, 1}}

\* new GuardExprChecker(typeChecker), and a condition to evaluate
InitForms ==
    /\ gExpr \in FormExprs
    /\ gResult = [call |-> "none"]
    /\ Idle({"compat", "walker", "rule", "version", "issuelist", "targets"})

SpecForms == InitForms /\ [][EvaluateCall \/ EvaluateChainCall]_vars

IsNil(e) == e.kind = "NullKeyword" \/ (e.kind = "Identifier" /\ e.text = "undefined")

IsEqualityOperator(op) == op \in {"==", "===", "!=", "!=="}

\* The readings of a comparison as "X compared with nil": <<X, nil>> for each side.
Readings(cmp) ==
    {<<StripParens(cmp.left), StripParens(cmp.right)>>,
     <<StripParens(cmp.right), StripParens(cmp.left)>>}

\* X is compared with undefined, or loosely with null.
Recognised(X, nil, op) ==
    \/ nil = UndefinedIdentifier
    \/ nil = NullKeyword /\ op \in {"==", "!="}

\* evaluate was called without a required polarity on a comparison, without NOTs.
EvaluatedComparison ==
    /\ gResult.call = "evaluate" /\ gResult.mustBePosOrNeg = "null"
    /\ StripParens(gExpr).kind = "BinaryExpression"
    /\ IsEqualityOperator(StripParens(gExpr).operatorToken)

\* The guard of "X compared with nil by op".
NilGuard(X, op) ==
    GuardExpression(X,
                    IF X.kind = "PropertyAccessExpression"
                    THEN GetPropertyOfType(X.expression, X.name) ELSE NullSymbol,
                    op \in {"==", "==="})

IsPropertyCondition(e) ==
    \/ StripParens(e).kind = "PropertyAccessExpression"
    \/ /\ StripParens(e).kind = "BinaryExpression"
       /\ StripParens(e).operatorToken = "in"
       /\ StripParens(StripParens(e).left).kind = "StringLiteral"

\* C25: X.prop as a condition and 'prop' in X are positive guards on the condition
\* itself whose identity is the member prop of the type of X and whose resolve target
\* is X; when the member does not resolve the guard has the same operand and polarity,
\* no identity and no resolve target. A guard whose operand is an identifier has no
\* resolve target.
C25_PropertyGuards ==
    gResult.call = "evaluate" =>
        /\ (gResult.mustBePosOrNeg = "null" /\ IsPropertyCondition(gExpr)) =>
               LET cond == StripParens(gExpr)
                   X == IF cond.kind = "PropertyAccessExpression" THEN cond.expression
                        ELSE cond.right
                   prop == IF cond.kind = "PropertyAccessExpression" THEN cond.name
                           ELSE StripParens(cond.left).text
                   member == GetPropertyOfType(X, prop)
               IN  /\ gResult.ret = GuardExpression(cond, member, FALSE)
                   /\ GetSymbolResolveTarget(gResult.ret)
                          = IF member # NullSymbol THEN X ELSE NoNode
        /\ gResult.ret.operand.kind = "Identifier" =>
               GetSymbolResolveTarget(gResult.ret) = NoNode

\* 'm' in (w) evaluated: a positive guard on the member m of W, resolved on (w).
C25_Witness ==
    /\ gResult.call = "evaluate" /\ gResult.mustBePosOrNeg = "null"
    /\ gExpr = BinaryExpression(StringLiteral("m"), "in", Wrap(Identifier("w", 0), 1))
    /\ gResult.ret.guardedSymbol = Symbol(<<"m">>, "W.m", TRUE)
    /\ ~gResult.ret.isNegated
    /\ GetSymbolResolveTarget(gResult.ret) = Wrap(Identifier("w", 0), 1)

\* A.z evaluated: the member does not resolve, and the guard has no resolve target.
C25_WitnessUnresolved ==
    /\ gResult.call = "evaluate" /\ gResult.mustBePosOrNeg = "null"
    /\ gExpr = PropertyAccessExpression(Identifier("A", 0), "z")
    /\ gResult.ret = GuardExpression(gExpr, NullSymbol, FALSE)
    /\ GetSymbolResolveTarget(gResult.ret) = NoNode

RECURSIVE CountNots(_)
\* The number of leading NOTs.
CountNots(e) == IF IsNot(StripParens(e)) THEN 1 + CountNots(StripParens(e).expression) ELSE 0

C26_WitnessEven ==
    /\ gResult.call = "evaluate" /\ gResult.mustBePosOrNeg = "null"
    /\ CountNots(gExpr) = 2
    /\ StripNots(gExpr) = BinaryExpression(PropertyAccessExpression(Identifier("w", 0), "m"),
                                           "==", UndefinedIdentifier)
    /\ gResult.ret = Evaluate(StripNots(gExpr), "null")
    /\ gResult.ret.isNegated

\* C27: with a required polarity, evaluate returns what it returns without one when
\* the polarity of the guard is the required one; when it is not, it returns the same
\* operand and the same isNegated, without identity.
C27_RequiredPolarity ==
    (gResult.call = "evaluate" /\ gResult.mustBePosOrNeg # "null") =>
        LET free == Evaluate(gExpr, "null")
            positiveRequired == gResult.mustBePosOrNeg = "true"
        IN  IF positiveRequired = ~free.isNegated
            THEN gResult.ret = free
            ELSE gResult.ret = GuardExpression(free.operand, NullSymbol, free.isNegated)

\* !(w.m) evaluated with the positive polarity required: without requirement it is a
\* negative guard on the member m; with it the member is withheld.
C27_Witness ==
    /\ gResult.call = "evaluate" /\ gResult.mustBePosOrNeg = "true"
    /\ gExpr = PrefixUnaryExpression("!", PropertyAccessExpression(Identifier("w", 0), "m"))
    /\ Evaluate(gExpr, "null").guardedSymbol = Symbol(<<"m">>, "W.m", TRUE)
    /\ gResult.ret = GuardExpression(PropertyAccessExpression(Identifier("w", 0), "m"),
                                     NullSymbol, TRUE)

\* The same expression with the negative polarity required: the result is the
\* unconstrained one, with the member.
C27_WitnessMatch ==
    /\ gResult.call = "evaluate" /\ gResult.mustBePosOrNeg = "false"
    /\ gExpr = PrefixUnaryExpression("!", PropertyAccessExpression(Identifier("w", 0), "m"))
    /\ gResult.ret = Evaluate(gExpr, "null")
    /\ gResult.ret.guardedSymbol = Symbol(<<"m">>, "W.m", TRUE)

(***************************************************************************)
(* getIssues for several targets                                           *)
(***************************************************************************)
MaxTargets == 2        \* targets handed to one getIssues call

\* The entries of a client in the record of Foo: none, single statements (supported
\* from the start, never, from 1.0 with a note, from 0.1 to 1.0 with a prefix, from 0.1
\* partially), and a list of two.
MultiRawEntries ==
    LET v01 == RawStr(VersionString(MkVersion(0, 1)))
        v10 == RawStr(VersionString(MkVersion(1, 0)))
        noted == RawStatement(v10, RawUndefined, "", "", FALSE, FALSE, <<"n">>)
        prefixed == RawStatement(v01, v10, "moz", "", FALSE, FALSE, <<>>)
    IN  {NoEntry,
         SingleEntry(RawStatement(RawBool(TRUE), RawUndefined, "", "", FALSE, FALSE, <<>>)),
         SingleEntry(RawStatement(RawBool(FALSE), RawUndefined, "", "", FALSE, FALSE, <<>>)),
         SingleEntry(noted),
         SingleEntry(prefixed),
         SingleEntry(RawStatement(v01, RawUndefined, "", "", FALSE, TRUE, <<>>)),
         ArrayEntry(<<noted, prefixed>>)}

\* Targets of the two clients, over different ranges.
MultiTargets ==
    {ClientInfo("a", minVal, MkVersion(0, 1)), ClientInfo("a", MkVersion(0, 2), MkVersion(0, 3)),
     ClientInfo("b", minVal, maxVal), ClientInfo("b", MkVersion(1, 0), MkVersion(1, 1))}

\* new CompatData(sourceData) for a source whose Foo has a record with an entry or none
\* for each client, or no record at all.
InitMulti ==
    /\ \/ \E ea \in MultiRawEntries, eb \in MultiRawEntries :
              /\ rawSupport = ea
              /\ m_builtins =
                     <<[name |-> <<"Foo">>,
                        compat |-> Compat("", [c \in ClientNames |->
                                       IF c = "a" THEN PreprocessSupportEntry(ea)
                                       ELSE PreprocessSupportEntry(eb)]),
                        members |-> <<>>]>>
       \/ /\ rawSupport = NoEntry
          /\ m_builtins = <<[name |-> <<"Foo">>, compat |-> NoCompat, members |-> <<>>]>>
    /\ m_api = <<>>
    /\ clientInfos = <<>>
    /\ cdFlags = {}
    /\ clientIssuesLists = <<>>
    /\ cdPc = "constructed"
    /\ Idle({"guard", "walker", "rule", "version", "issuelist", "targets"})

GetIssuesMulti ==
    /\ cdPc = "constructed"
    /\ \E cis \in SeqsUpTo(MultiTargets, MaxTargets), flags \in AllFlags : GetIssues(cis, flags)

SpecMulti == InitMulti /\ [][GetIssuesMulti]_vars

\* The entry of Foo's record for the client of a target.
FooEntryOf(ci) == m_builtins[1].compat.support[ci.name]

\* C28: getIssues returns one list per target, in the order of the targets: every
\* issue of the i-th list has the i-th target as clientInfo, and every issue other than
\* NOT_SUPPORTED has as startVersion and endVersion the version_added and
\* version_removed of a statement of the record of that target's client, whose window
\* intersects the range of the target.
C28_OneListPerTarget ==
    cdPc = "derived" =>
        /\ Len(clientIssuesLists) = Len(clientInfos)
        /\ \A i \in 1..Len(clientInfos) :
               \A k \in 1..Len(FooIssues(i)) :
                   LET issue == FooIssues(i)[k]
                       entry == FooEntryOf(clientInfos[i])
                   IN  /\ issue.clientInfo = clientInfos[i]
                       /\ issue.kind # NOT_SUPPORTED =>
                              \E j \in 1..Len(entry.ss) :
                                  /\ issue.startVersion = entry.ss[j].version_added
                                  /\ issue.endVersion = entry.ss[j].version_removed
                                  /\ ~Disjoint(clientInfos[i], entry.ss[j])

\* Targets b 1.0 .. 1.1 and a 0.2 .. 0.3, in this order; the record of a is prefixed
\* from 0.1 to 1.0 and that of b has a note from 1.0 on: the first list holds the NOTE
\* for b with the window 1.0 .. infinite, the second the NEEDS_PREFIX for a with the
\* window 0.1 .. 1.0; neither window is the range of its target.
C28_Witness ==
    /\ cdPc = "derived"
    /\ cdFlags = {}
    /\ clientInfos = <<ClientInfo("b", MkVersion(1, 0), MkVersion(1, 1)),
                       ClientInfo("a", MkVersion(0, 2), MkVersion(0, 3))>>
    /\ Kinds(FooIssues(1)) = <<NOTE>>
    /\ FooIssues(1)[1].clientInfo.name = "b"
    /\ FooIssues(1)[1].startVersion = MkVersion(1, 0)
    /\ FooIssues(1)[1].endVersion = infinite
    /\ Kinds(FooIssues(2)) = <<NEEDS_PREFIX>>
    /\ FooIssues(2)[1].clientInfo.name = "a"
    /\ FooIssues(2)[1].startVersion = MkVersion(0, 1)
    /\ FooIssues(2)[1].endVersion = MkVersion(1, 0)

(***************************************************************************)
(* The set calls of the index build, made with one scratch array           *)
(***************************************************************************)
\* _tempIssuesArray.length = 0, and the issues of the next feature pushed on it.
RefillScratch ==
    /\ \E issues \in IssueArrays \ {scratch} : scratch' = issues
    /\ issueLookup' = [call |-> "none"]
    /\ UNCHANGED <<issueList, issueSets, compatVars, guardVars, walkerVars, ruleVars,
                   versionVars, targetsVars>>

\* clientIssues.setIssuesForGlobal(name, _tempIssuesArray)
SetIssuesForGlobalFromScratch ==
    /\ Len(issueSets) < MaxSets
    /\ \E name \in GlobalNames :
           /\ issueList' = SetIssuesForGlobal(issueList, name, scratch)
           /\ issueSets' = Append(issueSets, [key |-> <<"global", name>>, issues |-> scratch])
    /\ issueLookup' = [call |-> "none"]
    /\ UNCHANGED <<scratch, compatVars, guardVars, walkerVars, ruleVars, versionVars, targetsVars>>

\* clientIssues.setIssuesForPropertyOrEvent(typeName, memberName, isEvent, _tempIssuesArray)
SetIssuesForPropertyOrEventFromScratch ==
    /\ Len(issueSets) < MaxSets
    /\ \E typeName \in {<<"T">>}, propName \in MemberNames, isEvent \in BOOLEAN :
           /\ issueList' = SetIssuesForPropertyOrEvent(issueList, typeName, propName, isEvent, scratch)
           /\ issueSets' = Append(issueSets, [key |-> <<"member", typeName, propName, isEvent>>,
                                              issues |-> scratch])
    /\ issueLookup' = [call |-> "none"]
    /\ UNCHANGED <<scratch, compatVars, guardVars, walkerVars, ruleVars, versionVars, targetsVars>>

\* A lookup, once the caller has set or refilled.
LookupAfterScratch ==
    /\ issueLookup.call = "none"
    /\ (GetIssuesForGlobalCall \/ GetIssuesForPropertyOrEventCall)

SpecScratch ==
    InitIssueList /\ [][RefillScratch \/ SetIssuesForGlobalFromScratch
                          \/ SetIssuesForPropertyOrEventFromScratch
                          \/ LookupAfterScratch]_vars

\* The keys of the lookups.
LookupKeys ==
    {<<"global", name>> : name \in GlobalNames}
    \cup {<<"member", k[1], k[2], k[3]>> : k \in TypeNames \X MemberNames \X BOOLEAN}

\* What a lookup of the key returns now, in an empty array.
LookupNow(key) ==
    IF key[1] = "global" THEN GetIssuesForGlobal(issueList, key[2], <<>>)
    ELSE GetIssuesForPropertyOrEvent(issueList, key[2], key[3], key[4], <<>>)

\* C29: the stored lists do not alias the array handed to the set calls: whatever the
\* caller does to that array afterwards, the lookup of every key returns the issues the
\* array held when the key was last set with a list that was not empty.
C29_StoredListsNotAliased ==
    /\ \A key \in LookupKeys : LookupNow(key) = LastSetFor(key)
    /\ issueLookup.call # "none" =>
           issueLookup.after = issueLookup.issues \o LookupNow(issueLookup.key)

\* The scratch array held two issues when x was set, was then refilled with one issue
\* and handed to the set call for y; the lookup of x appended the two issues.
C29_Witness ==
    /\ Len(issueSets) = 2
    /\ issueSets[1].key = <<"global", <<"x">>>>
    /\ issueSets[1].issues = <<IssueTwo, IssueOne>>
    /\ issueSets[2].key = <<"global", <<"y">>>>
    /\ issueSets[2].issues = <<IssueOne>>
    /\ scratch = <<IssueOne>>
    /\ issueLookup.call = "getIssuesForGlobal"
    /\ issueLookup.key = <<"global", <<"x">>>>
    /\ issueLookup.after = issueLookup.issues \o <<IssueTwo, IssueOne>>

\* C30: a feature whose compatibility record has no support entry for the client of a
\* target has exactly one issue for that target, NOT_SUPPORTED, whatever the range of
\* the target and the flags; a feature without compatibility record has no issue for
\* any target.
C30_MissingClientOrRecord ==
    cdPc = "derived" =>
        \A i \in 1..Len(clientInfos) :
            /\ (m_builtins[1].compat.present /\ FooEntryOf(clientInfos[i]).t = "undefined") =>
                   /\ Kinds(FooIssues(i)) = <<NOT_SUPPORTED>>
                   /\ FooIssues(i)[1].clientInfo = clientInfos[i]
                   /\ FooIssues(i)[1].featureName = <<"Foo">>
            /\ ~m_builtins[1].compat.present => FooIssues(i) = <<>>

\* The record of Foo has an entry for a and none for b; the targets are one of a and
\* one of b, and the flags ignore notes and partial implementations: the list of the
\* target of b holds the one NOT_SUPPORTED issue.
C30_Witness ==
    /\ cdPc = "derived"
    /\ cdFlags = {IGNORE_NOTES, IGNORE_PARTIAL_IMPL}
    /\ m_builtins[1].compat.present
    /\ m_builtins[1].compat.support["a"].t = "single"
    /\ m_builtins[1].compat.support["b"].t = "undefined"
    /\ Len(clientInfos) = 2
    /\ clientInfos[1].name = "a"
    /\ clientInfos[2] = ClientInfo("b", MkVersion(1, 0), MkVersion(1, 1))
    /\ Kinds(FooIssues(2)) = <<NOT_SUPPORTED>>

\* Foo has no compatibility record: two targets, and no issue for either.
C30_WitnessNoRecord ==
    /\ cdPc = "derived"
    /\ ~m_builtins[1].compat.present
    /\ Len(clientInfos) = 2
    /\ FooIssues(1) = <<>> /\ FooIssues(2) = <<>>

====
